---- MODULE Spec2Model ----
(***************************************************************************)
(* Model of apollobot's notification router                                *)
(* (src/src/apollobot/notifications/router.py) running on the asyncio      *)
(* event loop: single-threaded cooperative scheduling, FIFO ready queue.   *)
(*                                                                         *)
(* A registration entry is identified by its index in router.channels;     *)
(* the channel object of entry i is channels[i].  The same channel object  *)
(* may be registered several times and distinct objects may share a name   *)
(* (name is a class attribute of every concrete channel).                  *)
(*                                                                         *)
(* The router keeps no per-call state in its fields (only locals), so      *)
(* calls do not interact; one call at a time is followed through its       *)
(* awaits together with the tasks it created.                              *)
(***************************************************************************)
EXTENDS Integers, Sequences, FiniteSets, TLC

\* ------------------------------------------------------------------------
\* Bounds of the model
\* ------------------------------------------------------------------------
MaxReg == 2          \* register calls per behaviour
MaxStart == 2        \* _loop tasks one monitor creates per behaviour
MaxBeats == 2        \* heartbeat events one monitor dispatches per behaviour
MaxSends == 3        \* send calls on one email channel per behaviour
MaxTime == 2         \* clock ticks the email channel lives
MaxClock == 3        \* clock ticks one wait_for_response call is followed for
MaxUpdates == 2      \* updates in one getUpdates response
MaxCalls == 2        \* calls on one checkpoint bridge per behaviour
MaxPosts == 2        \* send calls on one webhook channel per behaviour

\* ------------------------------------------------------------------------
\* Channel objects and their class attributes
\* ------------------------------------------------------------------------
Channels == {"webhook1", "webhook2", "telegram", "discord"}

name(ch) ==
    CASE ch = "webhook1" -> "webhook"
      [] ch = "webhook2" -> "webhook"
      [] ch = "telegram" -> "telegram"
      [] ch = "discord"  -> "discord"

supports_responses(ch) == ch \in {"telegram", "discord"}

EventType == {"phase_completed", "checkpoint_approval"}

\* The only caller of router.request_approval builds a checkpoint_approval event.
ApprovalEventType == {"checkpoint_approval"}

\* The `events` argument of register: None, or a list of event-type names.
NoneArg == [none |-> TRUE, types |-> {}]
ListArg(S) == [none |-> FALSE, types |-> S]
EventsArgs == {NoneArg, ListArg({"phase_completed"})}

VARIABLES
    channels,       \* router.channels: sequence of channel objects
    filters,        \* router.filters: channel name -> subscribed event types
    registered,     \* history: the `events` argument of each register call
    pc,             \* position of the caller's coroutine inside the router
    op,             \* the router method of the current / last call
    ev,             \* event_type of the event of the current / last call
    tasks,          \* dispatch: entries whose _safe_send was handed to gather
    bidirectional,  \* request_approval: local list (entry indices)
    notify_only,    \* request_approval: local list (entry indices)
    k,              \* request_approval: position in the `for ch in bidirectional` send loop
    sendTask,       \* per entry: state of the _safe_send started for it in this call
    respTask,       \* per position of bidirectional: state of its wait_for_response task
    firstDone,      \* history: position of the response task that completed first (0: none)
    done,           \* asyncio.wait result: positions of the done tasks
    pending,        \* asyncio.wait result: positions of the pending tasks
    outcome,        \* how the last call ended: "none", "returned", "raised"
    result,         \* value returned by the last call: "None", "True", "False"
    sent            \* history: per channel object, number of send invocations in this call

routerVars == <<channels, filters, registered>>
callVars == <<pc, op, ev, tasks, bidirectional, notify_only, k, outcome, result>>
raceVars == <<respTask, firstDone, done, pending>>

\* connect_all / disconnect_all (they share pc, op, k and outcome with the calls above)
VARIABLES
    hookState,      \* per entry: state of its connect()/disconnect() in this call
    hookLog         \* history: entries in the order their hook was invoked in this call

lifeVars == <<hookState, hookLog>>

\* HeartbeatMonitor (heartbeat.py)
VARIABLES
    interval,           \* self.interval, in units of the model's clock tick
    hb_task,            \* self._task: 0 for None, else an index of loops
    loops,              \* every _loop task the monitor created, in creation order
    current_phase,      \* self._current_phase
    datasets_acquired,  \* self._datasets_acquired
    cost_so_far,        \* self._cost_so_far
    hbPc,               \* caller of the monitor: "idle", or "stop_await" inside stop()
    hbLast,             \* history: the last method called on the monitor
    hbStopped,          \* history: stop() has returned and start() was not called since
    hbBeats,            \* history: number of heartbeat events handed to router.dispatch
    hbEvent,            \* history: the last heartbeat event built
    hbLate,             \* history: a heartbeat was dispatched while hbStopped
    hbArgs              \* history: the arguments of the last update_status call

\* The status fields, with the arguments of the call that set them.
statusVars == <<current_phase, datasets_acquired, cost_so_far, hbArgs>>
hbVars == <<interval, hb_task, loops, statusVars, hbPc, hbLast, hbStopped,
            hbBeats, hbEvent, hbLate>>

\* EmailChannel (channels/email.py)
VARIABLES
    min_interval,   \* self.min_interval, in clock ticks
    to_addrs,       \* self.to_addrs is non-empty
    monotonic,      \* time.monotonic()
    last_sent,      \* self._last_sent
    email_pending,  \* self._pending: sequence of events
    batches,        \* history: every batch handed to _send_email, in order
    emCount,        \* history: number of send calls so far
    emLastSend      \* history: the last send call (event, queue before, flushed?)

emailVars == <<min_interval, to_addrs, monotonic, last_sent, email_pending,
               batches, emCount, emLastSend>>

\* One chat-platform or plain channel and one wait_for_response call on it
\* (channel.py, channels/telegram.py, channels/discord.py)
VARIABLES
    chatKind,        \* class of the channel: "telegram", "discord", "base"
    cred1,           \* Telegram token / Discord bot_token is non-empty
    cred2,           \* Telegram chat_id / Discord channel_id is non-empty
    chat_supports,   \* self.supports_responses
    timeout,         \* the `timeout` argument of the call, in clock ticks
    loop_time,       \* asyncio.get_event_loop().time()
    deadline,        \* local `deadline`
    deadlineSets,    \* history: number of times `deadline` was computed
    chatPc,          \* position of the call inside wait_for_response
    message_id,      \* Discord: the message polled ("none", "own", "foreign")
    chatResult,      \* "None" (running), "True", "False", "raised"
    chatCause        \* history: what ended the call

chatVars == <<chatKind, cred1, cred2, chat_supports, timeout, loop_time, deadline,
              deadlineSets, chatPc, message_id, chatResult, chatCause>>

\* ChannelCheckpointHandler (checkpoint.py)
VARIABLES
    session_id,     \* self.session_id of the bridge
    brPc,           \* caller of the bridge: "idle", or "in_router" awaiting the router
    brCall,         \* history: the current / last bridge call and session_id at its start
    routerCalls,    \* history: router methods invoked by that call, with their event
    brCount,        \* history: number of bridge calls so far
    routerResult,   \* what the router call returned: "None", "True", "False", "raised"
    brResult        \* what the bridge call returned: "None", "True", "False", "raised"

bridgeVars == <<session_id, brPc, brCall, routerCalls, brCount, routerResult, brResult>>

\* WebhookChannel (channels/webhook.py)
VARIABLES
    secret,         \* self.secret
    headers,        \* self.headers: configured header name -> value
    whPc,           \* position of send: "idle", or "posting" inside client.post
    whRequest,      \* history: content and headers of the last request posted
    whPosts,        \* history: number of requests posted
    whOutcome       \* how the last send ended: "none", "ok", "swallowed", "raised"

webhookVars == <<secret, headers, whPc, whRequest, whPosts, whOutcome>>

\* Orchestrator: the mission's mode and the configuration (mode, interactive,
\* auto_translate, heartbeat_interval), the position of the run (orPc, stage,
\* orPhase, orEnd), session.current_phase (orSession), whether the channels
\* are connected and the state of the session's heartbeat monitor, and the
\* history of the run: the router calls made ([op, connected]), the approvals
\* denied and the work begun.
VARIABLES mode, interactive, auto_translate, heartbeat_interval, orPc, stage,
          orPhase, orEnd, orSession, orConnected, orHb, orLog, orDenied, orBegan

orchVars == <<mode, interactive, auto_translate, heartbeat_interval, orPc, stage,
              orPhase, orEnd, orSession, orConnected, orHb, orLog, orDenied, orBegan>>

\* The state of the other components, left alone by the router's calls.
extVars == <<lifeVars, hbVars, emailVars, chatVars, bridgeVars, webhookVars, orchVars>>

\* The router with everything it owns.
routerAll == <<routerVars, callVars, sendTask, raceVars, sent, lifeVars>>

\* What the heartbeat monitor's steps leave alone.
hbFrame == <<routerAll, emailVars, chatVars, bridgeVars, webhookVars, orchVars>>

\* What the email channel's steps leave alone.
emailFrame == <<routerAll, hbVars, chatVars, bridgeVars, webhookVars, orchVars>>

\* What a channel's wait_for_response leaves alone.
chatFrame == <<routerAll, hbVars, emailVars, bridgeVars, webhookVars, orchVars>>

\* What connect_all / disconnect_all leave alone outside the router.
lifeFrame == <<hbVars, emailVars, chatVars, bridgeVars, webhookVars, orchVars>>

\* What the webhook channel leaves alone.
webhookFrame == <<routerAll, hbVars, emailVars, chatVars, bridgeVars, orchVars>>

\* What the orchestrator's run leaves alone (its use of the router and of the
\* monitor is recorded in the orchestrator's own variables).
orchFrame == <<routerAll, hbVars, emailVars, chatVars, bridgeVars, webhookVars>>

\* What the checkpoint bridge leaves alone.
bridgeFrame == <<routerAll, hbVars, emailVars, chatVars, webhookVars, orchVars>>

vars == <<channels, filters, registered, pc, op, ev, tasks, bidirectional,
          notify_only, k, sendTask, respTask, firstDone, done, pending,
          outcome, result, sent, extVars>>


Range(s) == {s[i] : i \in DOMAIN s}

\* The elements of S among 1..n as a list in increasing (registration) order.
RECURSIVE SelectIdx(_, _)
SelectIdx(n, S) ==
    IF n = 0 THEN << >>
    ELSE IF n \in S THEN Append(SelectIdx(n - 1, S), n)
         ELSE SelectIdx(n - 1, S)

\* ------------------------------------------------------------------------
\* NotificationRouter.__init__
\* ------------------------------------------------------------------------
LifeInit ==
    /\ hookState = << >>
    /\ hookLog = << >>

RouterInit ==
    /\ channels = << >>
    /\ filters = << >>
    /\ registered = << >>
    /\ pc = "idle"
    /\ op = "none"
    /\ ev = "none"
    /\ tasks = << >>
    /\ bidirectional = << >>
    /\ notify_only = << >>
    /\ k = 0
    /\ sendTask = << >>
    /\ respTask = << >>
    /\ firstDone = 0
    /\ done = {}
    /\ pending = {}
    /\ outcome = "none"
    /\ result = "None"
    /\ sent = [c \in Channels |-> 0]

\* ------------------------------------------------------------------------
\* HeartbeatMonitor.__init__
\* ------------------------------------------------------------------------
\* Candidate values of the `interval` argument, in clock ticks.
Intervals == {-1, 0, 1}

NoEvent == [event_type |-> "none", phase |-> "", datasets |-> 0, cost |-> 0]

NoArgs == [phase |-> "none", datasets |-> 0, cost |-> 0]

HbInit ==
    /\ interval \in Intervals
    /\ hb_task = 0
    /\ loops = << >>
    /\ current_phase = ""
    /\ datasets_acquired = 0
    /\ cost_so_far = 0
    /\ hbPc = "idle"
    /\ hbLast = "none"
    /\ hbStopped = FALSE
    /\ hbBeats = 0
    /\ hbEvent = NoEvent
    /\ hbLate = FALSE
    /\ hbArgs = NoArgs

HbFixed == HbInit /\ interval = 1

\* ------------------------------------------------------------------------
\* EmailChannel.__init__
\* ------------------------------------------------------------------------
\* Candidate values of the `min_interval` argument, in clock ticks.
MinIntervals == {0, 2}

NoMail == [id |-> 0, event_type |-> "none", severity |-> "none"]

EmailInit ==
    /\ min_interval \in MinIntervals
    /\ to_addrs \in BOOLEAN
    /\ monotonic = 0
    /\ last_sent = 0
    /\ email_pending = << >>
    /\ batches = << >>
    /\ emCount = 0
    /\ emLastSend = [event |-> NoMail, before |-> << >>, flushed |-> FALSE]

EmailFixed == EmailInit /\ min_interval = 2 /\ to_addrs

\* ------------------------------------------------------------------------
\* TelegramChannel.__init__ / DiscordChannel.__init__ / NotificationChannel
\* ------------------------------------------------------------------------
ChatKinds == {"telegram", "discord", "base"}

\* Candidate values of the `timeout` argument, in clock ticks.
Timeouts == {0, 1, 2}

\* A Telegram channel that demoted itself like the Discord channel does.
supports_after_init_demoting(kind, c1, c2) ==
    CASE kind = "telegram" -> c1 /\ c2
      [] kind = "discord"  -> c1 /\ c2
      [] kind = "base"     -> FALSE

\* supports_responses once __init__ has run: the class attribute, which only
\* DiscordChannel.__init__ overrides.
supports_after_init(kind, c1, c2) ==
    CASE kind = "telegram" -> TRUE
      [] kind = "discord"  -> c1 /\ c2
      [] kind = "base"     -> FALSE

ChatInit ==
    /\ chatKind \in ChatKinds
    /\ cred1 \in BOOLEAN
    /\ cred2 \in BOOLEAN
    /\ chat_supports = supports_after_init(chatKind, cred1, cred2)
    /\ timeout \in Timeouts
    /\ loop_time = 0
    /\ deadline = 0
    /\ deadlineSets = 0
    /\ chatPc = "idle"
    /\ message_id = "none"
    /\ chatResult = "None"
    /\ chatCause = "none"

ChatFixed == ChatInit /\ chatKind = "telegram" /\ cred1 /\ cred2 /\ timeout = 2

\* ------------------------------------------------------------------------
\* ChannelCheckpointHandler.__init__
\* ------------------------------------------------------------------------
SessionIds == {"", "s1", "s2"}

NoCall == [method |-> "none", phase |-> "", session_id |-> ""]

BridgeInit ==
    /\ session_id \in SessionIds
    /\ brPc = "idle"
    /\ brCall = NoCall
    /\ routerCalls = << >>
    /\ brCount = 0
    /\ routerResult = "None"
    /\ brResult = "None"

BridgeFixed == BridgeInit /\ session_id = ""

\* ------------------------------------------------------------------------
\* WebhookChannel.__init__
\* ------------------------------------------------------------------------
Secrets == {"", "k1", "k2"}

\* A header value: plain text, or "sha256=" followed by the hex digest of
\* the HMAC of msg under key.
Plain(text) == [scheme |-> "plain", key |-> "", msg |-> text]
Sha256Hmac(key, body) == [scheme |-> "sha256", key |-> key, msg |-> body]

\* Candidate values of the `headers` argument (None is the empty dict).
ConfiguredHeaders ==
    {<< >>,
     "X-Trace" :> Plain("t1"),
     "X-Apollo-Signature" :> Plain("configured"),
     "Content-Type" :> Plain("text/plain")}

NoRequest == [content |-> "none", headers |-> << >>]

WebhookInit ==
    /\ secret \in Secrets
    /\ headers \in ConfiguredHeaders
    /\ whPc = "idle"
    /\ whRequest = NoRequest
    /\ whPosts = 0
    /\ whOutcome = "none"

WebhookFixed == WebhookInit /\ secret = "" /\ headers = << >>

\* ------------------------------------------------------------------------
\* Orchestrator.run
\* ------------------------------------------------------------------------
Modes == {"discover", "translate", "implement", "commercialize", "pipeline"}

\* Candidate values of config.notifications.heartbeat_interval.
HeartbeatIntervals == {0, 1}

\* run(): the first stage of a mission of mode m.
FirstStage(m) == IF m = "pipeline" THEN "discover" ELSE m

OrchInit ==
    /\ mode \in Modes
    /\ interactive \in BOOLEAN
    /\ auto_translate \in BOOLEAN
    /\ heartbeat_interval \in HeartbeatIntervals
    /\ orPc = "setup"
    /\ stage = FirstStage(mode)
    /\ orPhase = 0
    /\ orEnd = "running"
    /\ orSession = "planning"
    /\ orConnected = FALSE
    /\ orHb = "none"
    /\ orLog = {}
    /\ orDenied = {}
    /\ orBegan = {}

OrchFixed ==
    OrchInit /\ mode = "discover" /\ interactive /\ ~auto_translate /\ heartbeat_interval = 1

\* The router of one orchestrator run, its monitor not yet started.
Init ==
    /\ RouterInit
    /\ LifeInit
    /\ HbFixed
    /\ EmailFixed
    /\ ChatFixed
    /\ BridgeFixed
    /\ WebhookFixed
    /\ OrchFixed

\* ------------------------------------------------------------------------
\* register / _matches
\* ------------------------------------------------------------------------
\* A register that falls back to the wildcard for None only.
OrWildcardForNone(events) ==
    IF events.none THEN {"*"} ELSE events.types

\* `events or ["*"]`: None and the empty list are both falsy.
OrWildcard(events) ==
    IF events.none \/ events.types = {} THEN {"*"} ELSE events.types

\* The registration list is built before the router is used
\* (Orchestrator.__init__ -> _build_router); no call has been made yet.
register(ch, events) ==
    /\ op = "none"
    /\ Len(channels) < MaxReg
    /\ channels' = Append(channels, ch)
    /\ filters' = [n \in DOMAIN filters \cup {name(ch)} |->
                     IF n = name(ch) THEN OrWildcard(events) ELSE filters[n]]
    /\ registered' = Append(registered, events)
    /\ UNCHANGED <<callVars, sendTask, raceVars, sent, extVars>>

matches(ch, e) ==
    LET subscribed == IF name(ch) \in DOMAIN filters THEN filters[name(ch)] ELSE {"*"}
    IN "*" \in subscribed \/ e \in subscribed


\* ------------------------------------------------------------------------
\* The event loop
\* ------------------------------------------------------------------------
SendSettled == {"ok", "swallowed", "raised"}
RespDone == {"approve", "deny", "timeout", "exc"}

\* The caller's coroutine is suspended at an await (or is outside the router),
\* so the loop is free to run other tasks.
MainSuspended ==
    \/ pc \in {"idle", "gather", "wait"}
    \/ pc = "send_bidir" /\ sendTask[bidirectional[k]] = "suspended"

\* Tasks are started in creation order in the loop iteration that follows
\* their creation; I/O completions are delivered only in later iterations.
NoCreated ==
    /\ \A i \in DOMAIN sendTask : sendTask[i] # "created"
    /\ \A p \in DOMAIN respTask : respTask[p] # "created"

\* Number of tasks of the last call that the loop still has to run.  The
\* callers of the router (checkpoint.py, orchestrator.py) issue their calls
\* one after another; a call is modelled as starting on a drained loop.
Unsettled ==
    Cardinality({i \in DOMAIN sendTask : sendTask[i] \in {"created", "suspended"}})
    + Cardinality({p \in DOMAIN respTask :
                       respTask[p] \in {"created", "polling", "cancel_req"}})

\* ------------------------------------------------------------------------
\* _safe_send
\* ------------------------------------------------------------------------
\* How `await channel.send(event)` ending with o ("ok" or "exc") ends _safe_send.
safe_send_retry(o) == IF o = "exc" THEN "created" ELSE o

safe_send_unguarded(o) == IF o = "exc" THEN "raised" ELSE o

safe_send(o) == IF o = "exc" THEN "swallowed" ELSE o

\* A loop that awaits each send before starting the next one.
send_start_sequential(i, o) ==
    /\ MainSuspended
    /\ i \in DOMAIN sendTask
    /\ sendTask[i] = "created"
    /\ \A j \in 1..(i - 1) : sendTask[j] \notin {"created", "suspended"}
    /\ sendTask' = [sendTask EXCEPT ![i] = IF o = "suspend" THEN "suspended"
                                           ELSE safe_send(o)]
    /\ sent' = [sent EXCEPT ![channels[i]] = @ + 1]
    /\ UNCHANGED <<extVars, routerVars, callVars, raceVars>>

\* First step of a _safe_send task (a gather child of dispatch, or a
\* create_task of request_approval): channel.send is invoked and either
\* finishes without suspending or suspends on I/O.
send_start(i, o) ==
    /\ MainSuspended
    /\ i \in DOMAIN sendTask
    /\ sendTask[i] = "created"
    /\ \A j \in 1..(i - 1) : sendTask[j] # "created"
    /\ sendTask' = [sendTask EXCEPT ![i] = IF o = "suspend" THEN "suspended"
                                           ELSE safe_send(o)]
    /\ sent' = [sent EXCEPT ![channels[i]] = @ + 1]
    /\ UNCHANGED <<extVars, routerVars, callVars, raceVars>>

IsTaskEntry(i) == op = "dispatch" \/ i \in Range(notify_only)

\* A suspended channel.send of a task completes.
send_resume(i, o) ==
    /\ MainSuspended
    /\ NoCreated
    /\ i \in DOMAIN sendTask
    /\ IsTaskEntry(i)
    /\ sendTask[i] = "suspended"
    /\ sendTask' = [sendTask EXCEPT ![i] = safe_send(o)]
    /\ UNCHANGED <<extVars, routerVars, callVars, raceVars, sent>>

\* ------------------------------------------------------------------------
\* dispatch
\* ------------------------------------------------------------------------
Matching(e) == {i \in 1..Len(channels) : matches(channels[i], e)}

\* A dispatch that also created a wait_for_response task per matching entry.
dispatch_waits(e) ==
    /\ pc = "idle"
    /\ Unsettled = 0
    /\ op' = "dispatch"
    /\ ev' = e
    /\ tasks' = SelectIdx(Len(channels), Matching(e))
    /\ sendTask' = [i \in 1..Len(channels) |->
                      IF i \in Matching(e) THEN "created" ELSE "none"]
    /\ IF Matching(e) = {}
       THEN pc' = "idle" /\ outcome' = "returned"
       ELSE pc' = "gather" /\ outcome' = "none"
    /\ result' = "None"
    /\ bidirectional' = << >>
    /\ notify_only' = << >>
    /\ k' = 0
    /\ respTask' = [p \in 1..Cardinality(Matching(e)) |-> "created"]
    /\ firstDone' = 0
    /\ done' = {}
    /\ pending' = {}
    /\ sent' = [c \in Channels |-> 0]
    /\ UNCHANGED <<routerVars, extVars>>

dispatch(e) ==
    /\ pc = "idle"
    /\ Unsettled = 0
    /\ op' = "dispatch"
    /\ ev' = e
    /\ tasks' = SelectIdx(Len(channels), Matching(e))
    /\ sendTask' = [i \in 1..Len(channels) |->
                      IF i \in Matching(e) THEN "created" ELSE "none"]
    /\ IF Matching(e) = {}
       THEN pc' = "idle" /\ outcome' = "returned"
       ELSE pc' = "gather" /\ outcome' = "none"
    /\ result' = "None"
    /\ bidirectional' = << >>
    /\ notify_only' = << >>
    /\ k' = 0
    /\ respTask' = << >>
    /\ firstDone' = 0
    /\ done' = {}
    /\ pending' = {}
    /\ sent' = [c \in Channels |-> 0]
    /\ UNCHANGED <<routerVars, extVars>>

\* `await asyncio.gather(*tasks)` resumes: every child has settled, or a
\* child raised (gather propagates the first exception at once).
dispatch_return ==
    /\ pc = "gather"
    /\ NoCreated
    /\ \/ \A i \in Range(tasks) : sendTask[i] \in SendSettled
       \/ \E i \in Range(tasks) : sendTask[i] = "raised"
    /\ pc' = "idle"
    /\ outcome' = IF \E i \in Range(tasks) : sendTask[i] = "raised"
                  THEN "raised" ELSE "returned"
    /\ UNCHANGED <<extVars, routerVars, op, ev, tasks, bidirectional, notify_only, k,
                   result, sendTask, raceVars, sent>>

\* ------------------------------------------------------------------------
\* request_approval
\* ------------------------------------------------------------------------
\* `if not bidirectional: return True`
approve_without_bidirectional_deny == "False"

approve_without_bidirectional == "True"

request_approval(e) ==
    /\ pc = "idle"
    /\ Unsettled = 0
    /\ op' = "request_approval"
    /\ ev' = e
    /\ tasks' = << >>
    /\ LET B == {i \in Matching(e) : supports_responses(channels[i])}
           N == {i \in Matching(e) : ~supports_responses(channels[i])}
       IN /\ bidirectional' = SelectIdx(Len(channels), B)
          /\ notify_only' = SelectIdx(Len(channels), N)
          /\ sendTask' = [i \in 1..Len(channels) |->
                            IF i \in N THEN "created" ELSE "none"]
          /\ IF B = {}
             THEN /\ pc' = "idle"
                  /\ outcome' = "returned"
                  /\ result' = approve_without_bidirectional
                  /\ k' = 0
             ELSE /\ pc' = "send_bidir"
                  /\ outcome' = "none"
                  /\ result' = "None"
                  /\ k' = 1
    /\ respTask' = << >>
    /\ firstDone' = 0
    /\ done' = {}
    /\ pending' = {}
    /\ sent' = [c \in Channels |-> 0]
    /\ UNCHANGED <<routerVars, extVars>>

\* `await self._safe_send(ch, event)` for bidirectional[k] ended in state s.
AfterBidirSend(s) ==
    /\ sendTask' = [sendTask EXCEPT ![bidirectional[k]] = s]
    /\ IF s = "raised"
       THEN /\ pc' = "idle"
            /\ outcome' = "raised"
            /\ UNCHANGED <<k, respTask>>
       ELSE IF k < Len(bidirectional)
       THEN /\ k' = k + 1
            /\ UNCHANGED <<pc, outcome, respTask>>
       ELSE /\ pc' = "wait"
            /\ respTask' = [p \in 1..Len(bidirectional) |-> "created"]
            /\ UNCHANGED <<k, outcome>>
    /\ UNCHANGED <<extVars, routerVars, op, ev, tasks, bidirectional, notify_only, result,
                   firstDone, done, pending>>

\* A send loop that goes on without awaiting a send that suspended.
approval_send_unawaited(o) ==
    /\ pc = "send_bidir"
    /\ sendTask[bidirectional[k]] = "none"
    /\ sent' = [sent EXCEPT ![channels[bidirectional[k]]] = @ + 1]
    /\ AfterBidirSend(IF o = "suspend" THEN "suspended" ELSE safe_send(o))

\* The send loop invokes channel.send on bidirectional[k] inline.
approval_send(o) ==
    /\ pc = "send_bidir"
    /\ sendTask[bidirectional[k]] = "none"
    /\ sent' = [sent EXCEPT ![channels[bidirectional[k]]] = @ + 1]
    /\ IF o = "suspend"
       THEN /\ sendTask' = [sendTask EXCEPT ![bidirectional[k]] = "suspended"]
            /\ UNCHANGED <<extVars, routerVars, callVars, raceVars>>
       ELSE AfterBidirSend(safe_send(o))

approval_send_resume(o) ==
    /\ pc = "send_bidir"
    /\ sendTask[bidirectional[k]] = "suspended"
    /\ NoCreated
    /\ AfterBidirSend(safe_send(o))
    /\ UNCHANGED sent

\* Value returned by a channel's wait_for_response for each way it can end
\* without raising.
wait_for_response_timeout_denies(o) ==
    CASE o = "approve" -> "True"
      [] o = "deny"    -> "False"
      [] o = "timeout" -> "False"

wait_for_response(o) ==
    CASE o = "approve" -> "True"
      [] o = "deny"    -> "False"
      [] o = "timeout" -> "True"

\* First step of a wait_for_response task: it answers at once or starts polling.
wait_start(p, o) ==
    /\ MainSuspended
    /\ p \in DOMAIN respTask
    /\ respTask[p] = "created"
    /\ \A i \in DOMAIN sendTask : sendTask[i] # "created"
    /\ \A q \in 1..(p - 1) : respTask[q] # "created"
    /\ respTask' = [respTask EXCEPT ![p] = o]
    /\ firstDone' = IF firstDone = 0 /\ o \in RespDone THEN p ELSE firstDone
    /\ UNCHANGED <<extVars, routerVars, callVars, sendTask, done, pending, sent>>

\* A polling wait_for_response ends: a control was actuated, the timeout
\* elapsed, or it raised.
wait_settle(p, o) ==
    /\ MainSuspended
    /\ NoCreated
    /\ p \in DOMAIN respTask
    /\ respTask[p] = "polling"
    /\ respTask' = [respTask EXCEPT ![p] = o]
    /\ firstDone' = IF firstDone = 0 THEN p ELSE firstDone
    /\ UNCHANGED <<extVars, routerVars, callVars, sendTask, done, pending, sent>>

\* A cancelled task whose error while being torn down reaches the caller.
cancel_deliver_propagates(p, o) ==
    /\ MainSuspended
    /\ p \in DOMAIN respTask
    /\ respTask[p] = "cancel_req"
    /\ respTask' = [respTask EXCEPT ![p] = o]
    /\ outcome' = IF o = "cancel_raised" THEN "raised" ELSE outcome
    /\ UNCHANGED <<extVars, routerVars, pc, op, ev, tasks, bidirectional, notify_only, k,
                   result, sendTask, firstDone, done, pending, sent>>

\* CancelledError is delivered to a task whose cancellation was requested:
\* the task ends cancelled, or with an error raised while it was torn down
\* (left in the task, which nothing awaits).
cancel_deliver(p, o) ==
    /\ MainSuspended
    /\ p \in DOMAIN respTask
    /\ respTask[p] = "cancel_req"
    /\ respTask' = [respTask EXCEPT ![p] = o]
    /\ UNCHANGED <<extVars, routerVars, callVars, sendTask, firstDone, done, pending, sent>>

Perms(S) ==
    {s \in [1..Cardinality(S) -> S] : \A a, b \in DOMAIN s : a # b => s[a] # s[b]}

\* `for task in done: try: return task.result() except Exception: log`
\* then `return True`; order is the iteration order of the set `done`.
\* "raise" stands for an exception leaving the loop.
first_result_ignored(order) == "True"

RECURSIVE first_result_unguarded(_)
first_result_unguarded(order) ==
    IF order = << >> THEN "True"
    ELSE IF respTask[Head(order)] = "exc" THEN "raise"
         ELSE wait_for_response(respTask[Head(order)])

RECURSIVE first_result_deny(_)
first_result_deny(order) ==
    IF order = << >> THEN "False"
    ELSE IF respTask[Head(order)] = "exc" THEN first_result_deny(Tail(order))
         ELSE wait_for_response(respTask[Head(order)])

RECURSIVE first_result(_)
first_result(order) ==
    IF order = << >> THEN "True"
    ELSE IF respTask[Head(order)] = "exc" THEN first_result(Tail(order))
         ELSE wait_for_response(respTask[Head(order)])

\* `for task in pending: task.cancel()`; D is the set of done tasks.
cancel_pending_skipped(D) == respTask

cancel_pending(D) ==
    [p \in DOMAIN respTask |-> IF p \in D THEN respTask[p] ELSE "cancel_req"]

\* A request_approval that resumes only once its notify-only sends settled.
approval_wait_return_after_notify(order) ==
    /\ pc = "wait"
    /\ NoCreated
    /\ \A i \in Range(notify_only) : sendTask[i] \in SendSettled
    /\ LET D == {p \in DOMAIN respTask : respTask[p] \in RespDone}
       IN /\ D # {}
          /\ order \in Perms(D)
          /\ done' = D
          /\ pending' = DOMAIN respTask \ D
          /\ respTask' = cancel_pending(D)
          /\ result' = IF first_result(order) = "raise" THEN "None"
                        ELSE first_result(order)
          /\ outcome' = IF first_result(order) = "raise" THEN "raised"
                         ELSE "returned"
    /\ pc' = "idle"
    /\ UNCHANGED <<extVars, routerVars, op, ev, tasks, bidirectional, notify_only, k,
                   sendTask, firstDone, sent>>

\* `await asyncio.wait(response_tasks, return_when=FIRST_COMPLETED)` resumes,
\* the pending tasks are cancelled and the result is taken from `done`.
approval_wait_return(order) ==
    /\ pc = "wait"
    /\ NoCreated
    /\ LET D == {p \in DOMAIN respTask : respTask[p] \in RespDone}
       IN /\ D # {}
          /\ order \in Perms(D)
          /\ done' = D
          /\ pending' = DOMAIN respTask \ D
          /\ respTask' = cancel_pending(D)
          /\ result' = IF first_result(order) = "raise" THEN "None"
                        ELSE first_result(order)
          /\ outcome' = IF first_result(order) = "raise" THEN "raised"
                         ELSE "returned"
    /\ pc' = "idle"
    /\ UNCHANGED <<extVars, routerVars, op, ev, tasks, bidirectional, notify_only, k,
                   sendTask, firstDone, sent>>

\* ------------------------------------------------------------------------
\* Specification
\* ------------------------------------------------------------------------
\* Candidate iteration orders of a set of response tasks.
Orders == UNION {[1..n -> 1..MaxReg] : n \in 1..MaxReg}

Next ==
    \/ \E ch \in Channels, events \in EventsArgs : register(ch, events)
    \/ \E e \in EventType : dispatch(e)
    \/ dispatch_return
    \/ \E i \in 1..MaxReg, o \in {"ok", "exc", "suspend"} : send_start(i, o)
    \/ \E i \in 1..MaxReg, o \in {"ok", "exc"} : send_resume(i, o)
    \/ \E e \in ApprovalEventType : request_approval(e)
    \/ \E o \in {"ok", "exc", "suspend"} : approval_send(o)
    \/ \E o \in {"ok", "exc"} : approval_send_resume(o)
    \/ \E p \in 1..MaxReg, o \in {"approve", "deny", "exc", "polling"} : wait_start(p, o)
    \/ \E p \in 1..MaxReg, o \in RespDone : wait_settle(p, o)
    \/ \E p \in 1..MaxReg, o \in {"cancelled", "cancel_raised"} : cancel_deliver(p, o)
    \/ \E order \in Orders : approval_wait_return(order)

Spec == Init /\ [][Next]_vars

\* Fair scheduling: the loop runs every ready task, every invoked send
\* settles and every wait_for_response ends (answer, error or timeout).
LiveSpec ==
    /\ Init
    /\ [][Next]_vars
    /\ WF_vars(\E i \in 1..MaxReg, o \in {"ok", "exc", "suspend"} : send_start(i, o))
    /\ WF_vars(\E i \in 1..MaxReg, o \in {"ok", "exc"} : send_resume(i, o))
    /\ WF_vars(\E o \in {"ok", "exc", "suspend"} : approval_send(o))
    /\ WF_vars(\E o \in {"ok", "exc"} : approval_send_resume(o))
    /\ WF_vars(\E p \in 1..MaxReg, o \in {"approve", "deny", "exc", "polling"} : wait_start(p, o))
    /\ WF_vars(\E p \in 1..MaxReg, o \in RespDone : wait_settle(p, o))
    /\ WF_vars(\E order \in Orders : approval_wait_return(order))
    /\ WF_vars(dispatch_return)

\* Registration with every kind of `events` argument (None, a list of event
\* types, the empty list), followed by dispatches.
FilterArgs == EventsArgs \cup {ListArg({})}

FilterNext ==
    \/ \E ch \in Channels, events \in FilterArgs : register(ch, events)
    \/ \E e \in EventType : dispatch(e)
    \/ dispatch_return
    \/ \E i \in 1..MaxReg, o \in {"ok", "exc", "suspend"} : send_start(i, o)
    \/ \E i \in 1..MaxReg, o \in {"ok", "exc"} : send_resume(i, o)

FilterSpec == Init /\ [][FilterNext]_vars

\* ------------------------------------------------------------------------
\* connect_all / disconnect_all
\* ------------------------------------------------------------------------
\* `try: await ch.connect() except Exception: logger.exception(...)`
hook_unguarded(o) == IF o = "exc" THEN "raised" ELSE o

hook_guarded(o) == IF o = "exc" THEN "swallowed" ELSE o

\* Entry of the loop `for ch in self.channels` of either method.
StartHooks(method) ==
    /\ op' = method
    /\ hookState' = [i \in 1..Len(channels) |-> "none"]
    /\ hookLog' = << >>
    /\ IF Len(channels) = 0
       THEN pc' = "idle" /\ outcome' = "returned" /\ k' = 0
       ELSE pc' = "hooks" /\ outcome' = "none" /\ k' = 1
    /\ UNCHANGED <<routerVars, ev, tasks, bidirectional, notify_only, result,
                   sendTask, raceVars, sent, lifeFrame>>

connect_all ==
    /\ pc = "idle"
    /\ StartHooks("connect_all")

disconnect_all ==
    /\ pc = "idle"
    /\ StartHooks("disconnect_all")

\* The hook of entry k ended in state s: next entry, or the method is over.
AfterHook(s) ==
    /\ hookState' = [hookState EXCEPT ![k] = s]
    /\ IF s = "raised"
       THEN pc' = "idle" /\ outcome' = "raised" /\ k' = k
       ELSE IF k < Len(channels)
       THEN pc' = "hooks" /\ outcome' = outcome /\ k' = k + 1
       ELSE pc' = "idle" /\ outcome' = "returned" /\ k' = k
    /\ UNCHANGED <<routerVars, op, ev, tasks, bidirectional, notify_only, result,
                   sendTask, raceVars, sent, lifeFrame>>

\* `for ch in self.channels`: the hook of channels[k] is invoked inline.
hook_call(o) ==
    /\ pc = "hooks"
    /\ hookState[k] = "none"
    /\ hookLog' = Append(hookLog, k)
    /\ IF o = "suspend"
       THEN /\ hookState' = [hookState EXCEPT ![k] = "suspended"]
            /\ UNCHANGED <<routerVars, callVars, sendTask, raceVars, sent, lifeFrame>>
       ELSE AfterHook(hook_guarded(o))

hook_resume(o) ==
    /\ pc = "hooks"
    /\ hookState[k] = "suspended"
    /\ AfterHook(hook_guarded(o))
    /\ UNCHANGED hookLog

LifecycleNext ==
    \/ \E ch \in Channels, events \in EventsArgs : register(ch, events)
    \/ connect_all
    \/ disconnect_all
    \/ \E o \in {"ok", "exc", "suspend"} : hook_call(o)
    \/ \E o \in {"ok", "exc"} : hook_resume(o)

LifecycleSpec == Init /\ [][LifecycleNext]_vars

\* ------------------------------------------------------------------------
\* HeartbeatMonitor
\* ------------------------------------------------------------------------
Phases == {"", "plan"}
\* The (datasets, cost) pairs a caller passes: the defaults and one pair of
\* values that differ from the defaults and from each other.
StatusArgs == {[datasets |-> 0, cost |-> 0], [datasets |-> 1, cost |-> 2]}

NewLoop == [st |-> "created", left |-> 0, cancel |-> FALSE, last |-> "none"]

\* An update_status that hands a heartbeat to the router itself.
update_status_dispatching(phase, datasets, cost) ==
    /\ hbBeats < MaxBeats
    /\ current_phase' = IF phase # "" THEN phase ELSE current_phase
    /\ datasets_acquired' = datasets
    /\ cost_so_far' = cost
    /\ hbArgs' = [phase |-> phase, datasets |-> datasets, cost |-> cost]
    /\ hbLast' = "update_status"
    /\ hbBeats' = hbBeats + 1
    /\ hbEvent' = [event_type |-> "heartbeat", phase |-> current_phase',
                   datasets |-> datasets, cost |-> cost]
    /\ UNCHANGED <<interval, hb_task, loops, hbPc, hbStopped, hbLate, hbFrame>>

\* An update_status that keeps a count when the argument is 0.
update_status_keeps_counts(phase, datasets, cost) ==
    /\ current_phase' = IF phase # "" THEN phase ELSE current_phase
    /\ datasets_acquired' = IF datasets # 0 THEN datasets ELSE datasets_acquired
    /\ cost_so_far' = IF cost # 0 THEN cost ELSE cost_so_far
    /\ hbArgs' = [phase |-> phase, datasets |-> datasets, cost |-> cost]
    /\ hbLast' = "update_status"
    /\ UNCHANGED <<interval, hb_task, loops, hbPc, hbStopped, hbBeats, hbEvent,
                   hbLate, hbFrame>>

update_status(phase, datasets, cost) ==
    /\ current_phase' = IF phase # "" THEN phase ELSE current_phase
    /\ datasets_acquired' = datasets
    /\ cost_so_far' = cost
    /\ hbArgs' = [phase |-> phase, datasets |-> datasets, cost |-> cost]
    /\ hbLast' = "update_status"
    /\ UNCHANGED <<interval, hb_task, loops, hbPc, hbStopped, hbBeats, hbEvent,
                   hbLate, hbFrame>>

\* A start() that creates the loop task whatever the interval.
hb_start_any_interval ==
    /\ hbPc = "idle"
    /\ Len(loops) < MaxStart
    /\ loops' = Append(loops, NewLoop)
    /\ hb_task' = Len(loops) + 1
    /\ hbLast' = "start"
    /\ hbStopped' = FALSE
    /\ UNCHANGED <<interval, statusVars, hbPc, hbBeats, hbEvent, hbLate, hbFrame>>

hb_start ==
    /\ hbPc = "idle"
    /\ IF interval <= 0
       THEN UNCHANGED <<loops, hb_task>>
       ELSE /\ Len(loops) < MaxStart
            /\ loops' = Append(loops, NewLoop)
            /\ hb_task' = Len(loops) + 1
    /\ hbLast' = "start"
    /\ hbStopped' = FALSE
    /\ UNCHANGED <<interval, statusVars, hbPc, hbBeats, hbEvent, hbLate, hbFrame>>

\* stop(): cancel the held task and await it, or return at once.
hb_stop ==
    /\ hbPc = "idle"
    /\ hbLast' = "stop"
    /\ IF hb_task # 0 /\ loops[hb_task].st # "done"
       THEN /\ loops' = [loops EXCEPT ![hb_task].cancel = TRUE]
            /\ hbPc' = "stop_await"
            /\ UNCHANGED <<hb_task, hbStopped>>
       ELSE /\ hbStopped' = TRUE
            /\ UNCHANGED <<loops, hbPc, hb_task>>
    /\ UNCHANGED <<interval, statusVars, hbBeats, hbEvent, hbLate, hbFrame>>

\* `await self._task` resumes once the cancelled task has ended.
hb_stop_return ==
    /\ hbPc = "stop_await"
    /\ loops[hb_task].st = "done"
    /\ hb_task' = 0
    /\ hbPc' = "idle"
    /\ hbStopped' = TRUE
    /\ UNCHANGED <<interval, loops, statusVars, hbLast, hbBeats, hbEvent, hbLate,
                   hbFrame>>

\* First step of a _loop task: enter `await asyncio.sleep(self.interval)`;
\* a task cancelled before its first step never runs.
loop_begin(t) ==
    /\ t \in DOMAIN loops
    /\ loops[t].st = "created"
    /\ loops' = IF loops[t].cancel
                THEN [loops EXCEPT ![t].st = "done"]
                ELSE [loops EXCEPT ![t].st = "sleeping",
                                   ![t].left = IF interval > 0 THEN interval ELSE 0]
    /\ UNCHANGED <<interval, hb_task, statusVars, hbPc, hbLast, hbStopped, hbBeats,
                   hbEvent, hbLate, hbFrame>>

\* One unit of time passes for every sleeping task.
tick ==
    /\ \E t \in DOMAIN loops : loops[t].st = "sleeping" /\ loops[t].left > 0
    /\ loops' = [t \in DOMAIN loops |->
                    IF loops[t].st = "sleeping" /\ loops[t].left > 0
                    THEN [loops[t] EXCEPT !.left = @ - 1] ELSE loops[t]]
    /\ UNCHANGED <<interval, hb_task, statusVars, hbPc, hbLast, hbStopped, hbBeats,
                   hbEvent, hbLate, hbFrame>>

\* The sleep is over: _send_heartbeat builds the event from the status
\* fields and calls router.dispatch.
loop_wake(t) ==
    /\ t \in DOMAIN loops
    /\ loops[t].st = "sleeping"
    /\ loops[t].left = 0
    /\ ~loops[t].cancel
    /\ hbBeats < MaxBeats
    /\ loops' = [loops EXCEPT ![t].st = "dispatching"]
    /\ hbBeats' = hbBeats + 1
    /\ hbEvent' = [event_type |-> "heartbeat", phase |-> current_phase,
                   datasets |-> datasets_acquired, cost |-> cost_so_far]
    /\ hbLate' = (hbLate \/ hbStopped)
    /\ UNCHANGED <<interval, hb_task, statusVars, hbPc, hbLast, hbStopped, hbFrame>>

\* A _send_heartbeat that lets the error of router.dispatch through.
send_heartbeat_unguarded(o) == IF o = "exc" THEN "raised" ELSE o

\* `try: await self.router.dispatch(event) except Exception: log`
send_heartbeat_guard(o) == IF o = "exc" THEN "swallowed" ELSE o

\* router.dispatch returned or raised: back to sleep.
loop_dispatched(t, o) ==
    /\ t \in DOMAIN loops
    /\ loops[t].st = "dispatching"
    /\ ~loops[t].cancel
    /\ loops' = IF send_heartbeat_guard(o) = "raised"
                THEN [loops EXCEPT ![t].st = "done", ![t].last = "raised"]
                ELSE [loops EXCEPT ![t].st = "sleeping",
                                   ![t].left = IF interval > 0 THEN interval ELSE 0,
                                   ![t].last = send_heartbeat_guard(o)]
    /\ UNCHANGED <<interval, hb_task, statusVars, hbPc, hbLast, hbStopped, hbBeats,
                   hbEvent, hbLate, hbFrame>>

\* A loop whose `except Exception` around the dispatch also catches the
\* cancellation: the task logs it and goes back to sleep.
loop_cancelled_swallowed(t) ==
    /\ t \in DOMAIN loops
    /\ loops[t].st \in {"sleeping", "dispatching"}
    /\ loops[t].cancel
    /\ loops' = IF loops[t].st = "dispatching"
                THEN [loops EXCEPT ![t].st = "sleeping", ![t].cancel = FALSE,
                                   ![t].left = IF interval > 0 THEN interval ELSE 0,
                                   ![t].last = "swallowed"]
                ELSE [loops EXCEPT ![t].st = "done"]
    /\ UNCHANGED <<interval, hb_task, statusVars, hbPc, hbLast, hbStopped, hbBeats,
                   hbEvent, hbLate, hbFrame>>

\* CancelledError is thrown into the task at its await (the sleep, or the
\* dispatch, where `except Exception` does not catch it); _loop returns.
loop_cancelled(t) ==
    /\ t \in DOMAIN loops
    /\ loops[t].st \in {"sleeping", "dispatching"}
    /\ loops[t].cancel
    /\ loops' = [loops EXCEPT ![t].st = "done"]
    /\ UNCHANGED <<interval, hb_task, statusVars, hbPc, hbLast, hbStopped, hbBeats,
                   hbEvent, hbLate, hbFrame>>

HbNext ==
    \/ \E phase \in Phases, a \in StatusArgs :
          update_status(phase, a.datasets, a.cost)
    \/ hb_start
    \/ hb_stop
    \/ hb_stop_return
    \/ \E t \in 1..MaxStart : loop_begin(t)
    \/ tick
    \/ \E t \in 1..MaxStart : loop_wake(t)
    \/ \E t \in 1..MaxStart, o \in {"ok", "exc"} : loop_dispatched(t, o)
    \/ \E t \in 1..MaxStart : loop_cancelled(t)

HbSpecInit == RouterInit /\ LifeInit /\ HbInit /\ EmailFixed /\ ChatFixed /\ BridgeFixed /\ WebhookFixed /\ OrchFixed

HeartbeatSpec == HbSpecInit /\ [][HbNext]_vars

\* ------------------------------------------------------------------------
\* EmailChannel
\* ------------------------------------------------------------------------
\* (event_type, severity) of the events sent to the channel.
MailKinds ==
    {[event_type |-> "phase_completed", severity |-> "info"],
     [event_type |-> "phase_completed", severity |-> "critical"],
     [event_type |-> "session_completed", severity |-> "info"],
     [event_type |-> "session_failed", severity |-> "critical"]}

\* Only terminal event types bypass the batch.
immediate_terminal_only(event) ==
    event.event_type \in {"session_completed", "session_failed"}

\* The test of send(): terminal event type, or critical severity.
immediate(event) ==
    \/ event.event_type \in {"session_completed", "session_failed"}
    \/ event.severity = "critical"

\* `await self._send_email(batch)` up to its first suspension: without
\* recipients it returns at once and send() goes on to set _last_sent.
flush(batch) ==
    /\ batches' = Append(batches,
                         [events |-> batch, at |-> monotonic,
                          status |-> IF to_addrs THEN "sending" ELSE "dropped"])
    /\ last_sent' = IF to_addrs THEN last_sent ELSE monotonic

\* A send whose immediate flush leaves the pending queue as it was.
email_send_keeps_pending(event_type, severity) ==
    /\ emCount < MaxSends
    /\ emCount' = emCount + 1
    /\ LET event == [id |-> emCount + 1, event_type |-> event_type,
                     severity |-> severity]
       IN  /\ IF immediate(event)
              THEN /\ email_pending' = email_pending
                   /\ flush(email_pending \o <<event>>)
              ELSE IF monotonic - last_sent >= min_interval
              THEN /\ email_pending' = << >>
                   /\ flush(Append(email_pending, event))
              ELSE /\ email_pending' = Append(email_pending, event)
                   /\ UNCHANGED <<batches, last_sent>>
           /\ emLastSend' = [event |-> event, before |-> email_pending,
                             flushed |-> Len(batches') > Len(batches)]
    /\ UNCHANGED <<min_interval, to_addrs, monotonic, emailFrame>>

email_send(event_type, severity) ==
    /\ emCount < MaxSends
    /\ emCount' = emCount + 1
    /\ LET event == [id |-> emCount + 1, event_type |-> event_type,
                     severity |-> severity]
       IN  /\ IF immediate(event)
              THEN /\ email_pending' = << >>
                   /\ flush(email_pending \o <<event>>)
              ELSE IF monotonic - last_sent >= min_interval
              THEN /\ email_pending' = << >>
                   /\ flush(Append(email_pending, event))
              ELSE /\ email_pending' = Append(email_pending, event)
                   /\ UNCHANGED <<batches, last_sent>>
           /\ emLastSend' = [event |-> event, before |-> email_pending,
                             flushed |-> Len(batches') > Len(batches)]
    /\ UNCHANGED <<min_interval, to_addrs, monotonic, emailFrame>>

\* An SMTP failure that puts the batch back and leaves _last_sent alone.
smtp_done_requeue(b, o) ==
    /\ b \in DOMAIN batches
    /\ batches[b].status = "sending"
    /\ batches' = [batches EXCEPT ![b].status = IF o = "exc" THEN "failed" ELSE "sent"]
    /\ last_sent' = IF o = "exc" THEN last_sent ELSE batches[b].at
    /\ email_pending' = IF o = "exc" THEN batches[b].events \o email_pending
                        ELSE email_pending
    /\ UNCHANGED <<min_interval, to_addrs, monotonic, emCount, emLastSend, emailFrame>>

\* run_in_executor(_smtp_send) ends (an SMTP error is logged); send() resumes
\* and stores the `now` it read on entry.
smtp_done(b, o) ==
    /\ b \in DOMAIN batches
    /\ batches[b].status = "sending"
    /\ batches' = [batches EXCEPT ![b].status = IF o = "exc" THEN "failed" ELSE "sent"]
    /\ last_sent' = batches[b].at
    /\ UNCHANGED <<min_interval, to_addrs, monotonic, email_pending, emCount,
                   emLastSend, emailFrame>>

email_tick ==
    /\ monotonic < MaxTime
    /\ monotonic' = monotonic + 1
    /\ UNCHANGED <<min_interval, to_addrs, last_sent, email_pending, batches,
                   emCount, emLastSend, emailFrame>>

EmailNext ==
    \/ \E kind \in MailKinds : email_send(kind.event_type, kind.severity)
    \/ \E b \in 1..MaxSends, o \in {"ok", "exc"} : smtp_done(b, o)
    \/ email_tick

EmailSpecInit == RouterInit /\ LifeInit /\ HbFixed /\ EmailInit /\ ChatFixed /\ BridgeFixed /\ WebhookFixed /\ OrchFixed

EmailSpec == EmailSpecInit /\ [][EmailNext]_vars

\* Time passes and every SMTP attempt ends; nothing obliges the program to
\* send another event.
EmailLiveSpec ==
    /\ EmailSpecInit
    /\ [][EmailNext]_vars
    /\ WF_vars(email_tick)
    /\ WF_vars(\E b \in 1..MaxSends, o \in {"ok", "exc"} : smtp_done(b, o))

\* ------------------------------------------------------------------------
\* wait_for_response of the channel classes
\* ------------------------------------------------------------------------
\* callback_data of an update: the approve or deny control of this event's
\* session and phase, or anything else.
Callbacks == {"approve", "deny", "other"}

\* Bodies of a getUpdates response with "ok": true.
UpdateLists == UNION {[1..n -> Callbacks] : n \in 0..MaxUpdates}

\* `for update in data["result"]`: the first update that is a control of
\* this event decides; "none" if there is none.
RECURSIVE FirstMatch(_)
FirstMatch(updates) ==
    IF updates = << >> THEN "none"
    ELSE IF Head(updates) \in {"approve", "deny"} THEN Head(updates)
    ELSE FirstMatch(Tail(updates))

\* An expired wait that denies.
expiry_result_denies == "False"

\* `return True  # timeout -> auto-approve`
expiry_result == "True"

Finish(value, cause) ==
    /\ chatPc' = "done"
    /\ chatResult' = value
    /\ chatCause' = cause

\* `while asyncio.get_event_loop().time() < deadline`
LoopHead ==
    IF loop_time < deadline
    THEN /\ chatPc' = IF chatKind = "telegram" THEN "poll" ELSE "sleep"
         /\ UNCHANGED <<chatResult, chatCause>>
    ELSE Finish(expiry_result, "expiry")

chat_wait_begin ==
    /\ chatPc = "idle"
    /\ loop_time + timeout <= MaxClock
    /\ IF chatKind = "base" \/ (chatKind = "discord" /\ ~chat_supports)
       THEN /\ Finish("True", "unsupported")
            /\ UNCHANGED <<deadline, deadlineSets>>
       ELSE /\ deadline' = loop_time + timeout
            /\ deadlineSets' = deadlineSets + 1
            /\ IF chatKind = "discord"
               THEN chatPc' = "first_fetch" /\ UNCHANGED <<chatResult, chatCause>>
               ELSE IF loop_time < loop_time + timeout
               THEN chatPc' = "poll" /\ UNCHANGED <<chatResult, chatCause>>
               ELSE Finish(expiry_result, "expiry")
    /\ UNCHANGED <<chatKind, cred1, cred2, chat_supports, timeout, loop_time,
                   message_id, chatFrame>>

\* Telegram: the getUpdates request of one loop round ended.
TgResponses ==
    {[kind |-> x, result |-> << >>] : x \in {"http_error", "bad_body", "not_ok"}}
        \cup {[kind |-> "ok", result |-> u] : u \in UpdateLists}

tg_poll(resp) ==
    /\ chatKind = "telegram"
    /\ chatPc = "poll"
    /\ CASE resp.kind = "http_error" ->
              chatPc' = "sleep" /\ UNCHANGED <<chatResult, chatCause>>
         [] resp.kind = "bad_body" -> Finish("raised", "bad_body")
         [] resp.kind = "not_ok" -> LoopHead
         [] OTHER ->
              CASE FirstMatch(resp.result) = "approve" -> Finish("True", "match")
                [] FirstMatch(resp.result) = "deny" -> Finish("False", "match")
                [] OTHER -> LoopHead
    /\ UNCHANGED <<chatKind, cred1, cred2, chat_supports, timeout, loop_time,
                   deadline, deadlineSets, message_id, chatFrame>>

\* `await asyncio.sleep(5)` ended.
chat_sleep_done ==
    /\ chatPc = "sleep"
    /\ IF chatKind = "telegram"
       THEN LoopHead
       ELSE chatPc' = "react_approve" /\ UNCHANGED <<chatResult, chatCause>>
    /\ UNCHANGED <<chatKind, cred1, cred2, chat_supports, timeout, loop_time,
                   deadline, deadlineSets, message_id, chatFrame>>

\* Discord: the request for the channel's latest messages ended.
dc_first_fetch(o) ==
    /\ chatPc = "first_fetch"
    /\ CASE o = "error" -> Finish("True", "fetch_error") /\ UNCHANGED message_id
         [] o = "empty" -> Finish("True", "no_message") /\ UNCHANGED message_id
         [] OTHER -> message_id' = o /\ LoopHead
    /\ UNCHANGED <<chatKind, cred1, cred2, chat_supports, timeout, loop_time,
                   deadline, deadlineSets, chatFrame>>

\* Discord: the reactions request for one emoji ended.
dc_reactions(o) ==
    /\ chatPc \in {"react_approve", "react_deny"}
    /\ CASE o = "human" ->
              Finish(IF chatPc = "react_approve" THEN "True" ELSE "False", "match")
         [] o \in {"no_human", "not_200"} ->
              IF chatPc = "react_approve"
              THEN chatPc' = "react_deny" /\ UNCHANGED <<chatResult, chatCause>>
              ELSE LoopHead
         [] o = "http_error" -> LoopHead
         [] o = "bad_body" -> Finish("raised", "bad_body")
    /\ UNCHANGED <<chatKind, cred1, cred2, chat_supports, timeout, loop_time,
                   deadline, deadlineSets, message_id, chatFrame>>

\* Time passes while the call is suspended in a request or a sleep.
chat_tick ==
    /\ chatPc \notin {"done"}
    /\ loop_time < MaxClock
    /\ loop_time' = loop_time + 1
    /\ UNCHANGED <<chatKind, cred1, cred2, chat_supports, timeout, deadline,
                   deadlineSets, chatPc, message_id, chatResult, chatCause, chatFrame>>

ChatNext ==
    \/ chat_wait_begin
    \/ \E resp \in TgResponses : tg_poll(resp)
    \/ chat_sleep_done
    \/ \E o \in {"error", "empty", "own", "foreign"} : dc_first_fetch(o)
    \/ \E o \in {"human", "no_human", "not_200", "http_error", "bad_body"} :
          dc_reactions(o)
    \/ chat_tick

ChatSpecInit == RouterInit /\ LifeInit /\ HbFixed /\ EmailFixed /\ ChatInit /\ BridgeFixed /\ WebhookFixed /\ OrchFixed

ChatSpec == ChatSpecInit /\ [][ChatNext]_vars

\* The clock advances and every request and sleep of the call ends.
ChatLiveSpec ==
    /\ ChatSpecInit
    /\ [][ChatNext]_vars
    /\ WF_vars(chat_wait_begin)
    /\ WF_vars(\E resp \in TgResponses : tg_poll(resp))
    /\ WF_vars(chat_sleep_done)
    /\ WF_vars(\E o \in {"error", "empty", "own", "foreign"} : dc_first_fetch(o))
    /\ WF_vars(\E o \in {"human", "no_human", "not_200", "http_error", "bad_body"} :
                  dc_reactions(o))
    /\ WF_vars(chat_tick)

\* ------------------------------------------------------------------------
\* ChannelCheckpointHandler
\* ------------------------------------------------------------------------
BridgePhases == {"plan", "execute"}

\* An approval event that does not ask for a response.
approval_event_no_response(phase) ==
    [event_type |-> "checkpoint_approval", severity |-> "warning",
     session_id |-> session_id, phase |-> phase, requires_response |-> FALSE]

\* The event built by request_approval.
approval_event(phase) ==
    [event_type |-> "checkpoint_approval", severity |-> "warning",
     session_id |-> session_id, phase |-> phase, requires_response |-> TRUE]

\* The event built by notify (severity and requires_response are the
\* defaults of NotificationEvent).
notify_event(phase) ==
    [event_type |-> "phase_completed", severity |-> "info",
     session_id |-> session_id, phase |-> phase, requires_response |-> FALSE]

\* Orchestrator._setup_session: self.checkpoint.session_id = mission.id
set_session_id(s) ==
    /\ s # session_id
    /\ session_id' = s
    /\ UNCHANGED <<brPc, brCall, routerCalls, brCount, routerResult, brResult,
                   bridgeFrame>>

BridgeCall(method, phase, routerMethod, event) ==
    /\ brPc = "idle"
    /\ brCount < MaxCalls
    /\ brCount' = brCount + 1
    /\ brCall' = [method |-> method, phase |-> phase, session_id |-> session_id]
    /\ routerCalls' = <<[method |-> routerMethod, event |-> event]>>
    /\ brPc' = "in_router"
    /\ routerResult' = "None"
    /\ brResult' = "None"
    /\ UNCHANGED <<session_id, bridgeFrame>>

bridge_request_approval(phase) ==
    /\ brPc = "idle"
    /\ BridgeCall("request_approval", phase, "request_approval", approval_event(phase))

bridge_notify(phase) ==
    /\ brPc = "idle"
    /\ BridgeCall("notify", phase, "dispatch", notify_event(phase))

\* The awaited router method returns v (or raises); the bridge hands a
\* decision back as it is, notify returns None, an exception propagates.
router_returns(v) ==
    /\ brPc = "in_router"
    /\ \/ v = "raised"
       \/ brCall.method = "notify" /\ v = "None"
       \/ brCall.method = "request_approval" /\ v \in {"True", "False"}
    /\ routerResult' = v
    /\ brResult' = v
    /\ brPc' = "idle"
    /\ UNCHANGED <<session_id, brCall, routerCalls, brCount, bridgeFrame>>

BridgeNext ==
    \/ \E s \in SessionIds : set_session_id(s)
    \/ \E phase \in BridgePhases : bridge_request_approval(phase)
    \/ \E phase \in BridgePhases : bridge_notify(phase)
    \/ \E v \in {"None", "True", "False", "raised"} : router_returns(v)

BridgeSpecInit == RouterInit /\ LifeInit /\ HbFixed /\ EmailFixed /\ ChatFixed /\ BridgeInit /\ WebhookFixed /\ OrchFixed

BridgeSpec == BridgeSpecInit /\ [][BridgeNext]_vars

\* ------------------------------------------------------------------------
\* WebhookChannel
\* ------------------------------------------------------------------------
\* Events sent to the channel, and their JSON serialization
\* json.dumps(event.model_dump(mode="json")).
WebhookEvents == {"phase_completed", "session_failed"}

Body(event) == "{\"event_type\": \"" \o event \o "\"}"

\* send_headers before signing: Content-Type, then the configured headers
\* (a configured header of the same name replaces it).
BaseHeaders == headers @@ ("Content-Type" :> Plain("application/json"))

\* Signing whether or not a secret is configured.
sign_always(h, body) ==
    ("X-Apollo-Signature" :> Sha256Hmac(secret, body)) @@ h

\* `if self.secret: send_headers["X-Apollo-Signature"] = "sha256=" + hexdigest`
sign(h, body) ==
    IF secret # ""
    THEN ("X-Apollo-Signature" :> Sha256Hmac(secret, body)) @@ h
    ELSE h

webhook_send(event) ==
    /\ whPc = "idle"
    /\ whPosts < MaxPosts
    /\ whPosts' = whPosts + 1
    /\ whRequest' = [content |-> Body(event), headers |-> sign(BaseHeaders, Body(event))]
    /\ whPc' = "posting"
    /\ whOutcome' = "none"
    /\ UNCHANGED <<secret, headers, webhookFrame>>

\* client.post / raise_for_status ended: httpx.HTTPError is logged, any
\* other exception leaves send.
webhook_post_done(o) ==
    /\ whPc = "posting"
    /\ whPc' = "idle"
    /\ whOutcome' = CASE o = "ok" -> "ok"
                      [] o = "http_error" -> "swallowed"
                      [] o = "exc" -> "raised"
    /\ UNCHANGED <<secret, headers, whRequest, whPosts, webhookFrame>>

WebhookNext ==
    \/ \E event \in WebhookEvents : webhook_send(event)
    \/ \E o \in {"ok", "http_error", "exc"} : webhook_post_done(o)

WebhookSpecInit ==
    RouterInit /\ LifeInit /\ HbFixed /\ EmailFixed /\ ChatFixed /\ BridgeFixed /\ WebhookInit
        /\ OrchFixed

WebhookSpec == WebhookSpecInit /\ [][WebhookNext]_vars

\* ------------------------------------------------------------------------
\* Orchestrator: one run of a mission, with a router that has channels (the
\* checkpoint handler is the ChannelCheckpointHandler)
\* ------------------------------------------------------------------------
\* The phases of ResearchExecutor.execute, in order.
ExecPhases ==
    <<"literature_review", "data_acquisition", "analysis", "statistical_testing",
      "manuscript_drafting", "self_review">>

\* "These are critical - can't continue without them".
CriticalPhases == {"literature_review", "data_acquisition"}

\* The stage order of run_pipeline and the approval asked before each stage.
NextStage(st) ==
    CASE st = "discover"  -> "translate"
      [] st = "translate" -> "implement"
      [] st = "implement" -> "commercialize"

PipelineGate(st) ==
    CASE st = "discover"  -> "pipeline_translate"
      [] st = "translate" -> "pipeline_implement"
      [] st = "implement" -> "pipeline_commercialize"

\* The router calls op1, op2, ... made now, with the channels' connection state.
Logged(ops) == orLog \cup {[op |-> o, connected |-> orConnected] : o \in ops}

\* _setup_session: connect_all, dispatch(SESSION_STARTED), heartbeat.start().
or_setup ==
    /\ orPc = "setup"
    /\ orConnected' = TRUE
    /\ orLog' = orLog \cup {[op |-> "dispatch", connected |-> TRUE]}
    /\ orHb' = IF heartbeat_interval > 0 THEN "running" ELSE "idle"
    /\ orSession' = "planning"
    /\ orPhase' = 0
    /\ orBegan' = orBegan \cup {stage}
    /\ orPc' = IF stage = "discover" THEN "plan" ELSE "body"
    /\ UNCHANGED <<mode, interactive, auto_translate, heartbeat_interval, stage, orEnd,
                   orDenied, orchFrame>>

\* The loop task of the session's monitor dispatches a heartbeat.
or_heartbeat ==
    /\ orHb = "running"
    /\ orLog' = Logged({"heartbeat"})
    /\ UNCHANGED <<mode, interactive, auto_translate, heartbeat_interval, orPc, stage,
                   orPhase, orEnd, orSession, orConnected, orHb, orDenied, orBegan,
                   orchFrame>>

\* run_discover after planning: the approval of the plan (interactive only);
\* a denial stops the monitor, disconnects and returns the cancelled session.
or_plan(approved) ==
    /\ orPc = "plan"
    /\ interactive \/ approved
    /\ orLog' = IF interactive THEN Logged({"request_approval"}) ELSE orLog
    /\ IF interactive /\ ~approved
       THEN /\ orSession' = "cancelled"
            /\ orHb' = "stopped"
            /\ orConnected' = FALSE
            /\ orDenied' = orDenied \cup {"plan"}
            /\ orPc' = "stage_done"
            /\ UNCHANGED <<orPhase, orBegan>>
       ELSE /\ orPc' = "exec"
            /\ orPhase' = 1
            /\ orBegan' = orBegan \cup {"execute"}
            /\ UNCHANGED <<orSession, orHb, orConnected, orDenied>>
    /\ UNCHANGED <<mode, interactive, auto_translate, heartbeat_interval, stage, orEnd,
                   orchFrame>>

\* A _handle_checkpoint that goes on after a denial.
checkpoint_rejected_ignored(cp, approved) == FALSE

\* _handle_checkpoint raises RuntimeError: the phase requires approval and
\* request_approval returned false.
checkpoint_rejected(cp, approved) == cp = "require_approval" /\ ~approved

\* One round of the loop of ResearchExecutor.execute, for ExecPhases[orPhase]:
\* budget check, _handle_checkpoint (cp is the action of the mission's
\* checkpoint for this phase), notify, begin_phase, the phase handler (o).
or_exec_phase(budget_ok, cp, approved, o) ==
    /\ orPc = "exec"
    /\ LET ph == ExecPhases[orPhase]
           asked == IF cp = "require_approval" THEN {"request_approval"}
                    ELSE IF cp = "notify" THEN {"notify"} ELSE {}
       IN  IF ~budget_ok
           THEN /\ orSession' = "failed"
                /\ orLog' = Logged({"notify"})
                /\ orPc' = "exec_end"
                /\ UNCHANGED <<orPhase, orEnd, orDenied, orBegan>>
           ELSE IF checkpoint_rejected(cp, approved)
           THEN /\ orLog' = Logged(asked)
                /\ orDenied' = orDenied \cup {ph}
                /\ orEnd' = "raised"
                /\ orPc' = "ended"
                /\ UNCHANGED <<orPhase, orSession, orBegan>>
           ELSE /\ orLog' = Logged(asked \cup {"notify"})
                /\ orDenied' = IF cp = "require_approval" /\ ~approved
                               THEN orDenied \cup {ph} ELSE orDenied
                /\ orBegan' = orBegan \cup {ph}
                /\ orSession' = IF o = "exc" THEN "failed" ELSE "phase"
                /\ IF (o = "exc" /\ ph \in CriticalPhases) \/ orPhase = Len(ExecPhases)
                   THEN orPc' = "exec_end" /\ UNCHANGED orPhase
                   ELSE orPc' = "exec" /\ orPhase' = orPhase + 1
                /\ UNCHANGED orEnd
    /\ UNCHANGED <<mode, interactive, auto_translate, heartbeat_interval, stage,
                   orConnected, orHb, orchFrame>>

\* execute() after the loop: `if session.current_phase != Phase.FAILED`.
or_exec_end ==
    /\ orPc = "exec_end"
    /\ orSession' = IF orSession # "failed" THEN "complete" ELSE orSession
    /\ orPc' = "teardown"
    /\ UNCHANGED <<mode, interactive, auto_translate, heartbeat_interval, stage, orPhase,
                   orEnd, orConnected, orHb, orLog, orDenied, orBegan, orchFrame>>

\* translate / implement / commercialize: the phases notify through the
\* checkpoint handler and the session ends complete or failed.
or_stage_body(o) ==
    /\ orPc = "body"
    /\ orLog' = Logged({"notify"})
    /\ orSession' = o
    /\ orPc' = "teardown"
    /\ UNCHANGED <<mode, interactive, auto_translate, heartbeat_interval, stage, orPhase,
                   orEnd, orConnected, orHb, orDenied, orBegan, orchFrame>>

\* _teardown_session: update_status, heartbeat.stop(), dispatch of the
\* final event, disconnect_all.
or_teardown ==
    /\ orPc = "teardown"
    /\ orHb' = "stopped"
    /\ orLog' = Logged({"dispatch"})
    /\ orConnected' = FALSE
    /\ orPc' = "stage_done"
    /\ UNCHANGED <<mode, interactive, auto_translate, heartbeat_interval, stage, orPhase,
                   orEnd, orSession, orDenied, orBegan, orchFrame>>

\* run() of a single-mode mission returns the session.
or_return ==
    /\ orPc = "stage_done"
    /\ mode # "pipeline"
    /\ orEnd' = "returned"
    /\ orPc' = "ended"
    /\ UNCHANGED <<mode, interactive, auto_translate, heartbeat_interval, stage, orPhase,
                   orSession, orConnected, orHb, orLog, orDenied, orBegan, orchFrame>>

\* run_pipeline between two stages: halt unless the stage completed, then
\* the approval of the next stage (score_high: translation score >= 7).
or_pipeline_next(score_high, approved) ==
    /\ orPc = "stage_done"
    /\ mode = "pipeline"
    /\ LET halted == stage = "commercialize" \/ orSession # "complete"
           auto == stage = "discover" /\ auto_translate /\ score_high
           asks == ~halted /\ ~auto /\ interactive
           proceed == /\ ~halted
                      /\ \/ auto
                         \/ asks /\ approved
                         \/ ~interactive /\ stage # "discover"
       IN  /\ orLog' = IF asks THEN Logged({"request_approval"}) ELSE orLog
           /\ orDenied' = IF asks /\ ~approved THEN orDenied \cup {PipelineGate(stage)}
                          ELSE orDenied
           /\ IF proceed
              THEN /\ stage' = NextStage(stage)
                   /\ orPc' = "setup"
                   /\ UNCHANGED orEnd
              ELSE /\ orEnd' = "returned"
                   /\ orPc' = "ended"
                   /\ UNCHANGED stage
    /\ UNCHANGED <<mode, interactive, auto_translate, heartbeat_interval, orPhase,
                   orSession, orConnected, orHb, orBegan, orchFrame>>

OrchNext ==
    \/ or_setup
    \/ or_heartbeat
    \/ \E approved \in BOOLEAN : or_plan(approved)
    \/ \E budget_ok, approved \in BOOLEAN, cp \in {"none", "require_approval", "notify"},
          o \in {"ok", "exc"} : or_exec_phase(budget_ok, cp, approved, o)
    \/ or_exec_end
    \/ \E o \in {"complete", "failed"} : or_stage_body(o)
    \/ or_teardown
    \/ or_return
    \/ \E score_high, approved \in BOOLEAN : or_pipeline_next(score_high, approved)

OrchSpecInit ==
    RouterInit /\ LifeInit /\ HbFixed /\ EmailFixed /\ ChatFixed /\ BridgeFixed
        /\ WebhookFixed /\ OrchInit

OrchSpec == OrchSpecInit /\ [][OrchNext]_vars

\* ------------------------------------------------------------------------
\* Vocabulary of the properties
\* ------------------------------------------------------------------------
Returned(o) == op = o /\ pc = "idle" /\ outcome = "returned"

\* channel.send was invoked for entry i in the current call.
Invoked(i) == sendTask[i] \notin {"none", "created"}

\* Entries under which channel object c was registered.
EntriesOf(c) == {i \in 1..Len(channels) : channels[i] = c}

\* The bidirectional entries of the call are pairwise distinct channel objects.
DistinctResponders ==
    Cardinality({channels[bidirectional[p]] : p \in DOMAIN bidirectional})
        = Len(bidirectional)

\* The event type passes the filter given in the register call of entry i.
PassesOwnFilter(i, e) ==
    registered[i].none \/ "*" \in registered[i].types \/ e \in registered[i].types

\* ------------------------------------------------------------------------
\* C1: dispatch never raises, whatever the sends do; when it returns, send
\* has been invoked on every matching entry and has completed there, also
\* when the send of another entry (or of every entry) raised.
\* ------------------------------------------------------------------------
C1_DispatchSwallowsSendErrors ==
    /\ op = "dispatch" => outcome # "raised"
    /\ Returned("dispatch") =>
          \A i \in Matching(ev) : Invoked(i) /\ sendTask[i] \in {"ok", "swallowed"}

C1_Witness ==
    /\ Returned("dispatch")
    /\ Cardinality({channels[i] : i \in Matching(ev)}) >= 2
    /\ \A i \in Matching(ev) : sendTask[i] = "swallowed"

\* ------------------------------------------------------------------------
\* C2 (as claimed): a channel registered (once) with an explicit filter has
\* send invoked only for events whose type is in that filter, and a channel
\* registered (once) with the wildcard filter has send invoked for every
\* dispatched event.
\* ------------------------------------------------------------------------
C2_OwnFilterDecides ==
    \A i \in DOMAIN sendTask :
        EntriesOf(channels[i]) = {i} =>
            /\ Invoked(i) => PassesOwnFilter(i, ev)
            /\ (Returned("dispatch") /\ registered[i].none) => Invoked(i)

\* ------------------------------------------------------------------------
\* C3: request_approval returns true, without blocking, whenever no matching
\* registered channel supports responses (any number of notify-only
\* channels, none included).
\* ------------------------------------------------------------------------
C3_NoBidirectionalAutoApproves ==
    (op = "request_approval"
       /\ \A i \in Matching(ev) : channels[i] \notin {"telegram", "discord"})
    => (pc = "idle" /\ outcome = "returned" /\ result = "True")

C3_Witness ==
    /\ Returned("request_approval")
    /\ Len(notify_only) = 2
    /\ channels[1] # channels[2]
    /\ bidirectional = << >>
    /\ result = "True"

\* ------------------------------------------------------------------------
\* C4: with exactly one matching bidirectional entry, request_approval
\* returns the value its wait_for_response returned.
\* ------------------------------------------------------------------------
C4_SingleResponderDecides ==
    (Returned("request_approval") /\ Len(bidirectional) = 1)
    => /\ respTask[1] \in {"approve", "timeout"} => result = "True"
       /\ respTask[1] = "deny" => result = "False"

C4_Witness ==
    /\ Returned("request_approval")
    /\ Len(bidirectional) = 1
    /\ respTask[1] = "deny"
    /\ result = "False"

\* ------------------------------------------------------------------------
\* C5 (as claimed): with several (distinct) matching bidirectional channels the value
\* returned is the one returned by the wait_for_response that completed
\* first, and every task not yet completed has had its cancellation requested.
\* ------------------------------------------------------------------------
C5_FirstCompletedWins ==
    (Returned("request_approval") /\ Len(bidirectional) >= 2 /\ DistinctResponders)
    => /\ respTask[firstDone] \in {"approve", "timeout"} => result = "True"
       /\ respTask[firstDone] = "deny" => result = "False"
       /\ \A p \in DOMAIN respTask :
             respTask[p] \notin RespDone => respTask[p] \in {"cancel_req", "cancelled", "cancel_raised"}

\* C5 (amended): the value returned is the one returned by one of the
\* wait_for_response tasks that had completed when asyncio.wait resumed (the
\* first-completed one when no other had completed by then); every task not
\* completed by then has had its cancellation requested before the return.
C5_SomeCompletedWins ==
    (Returned("request_approval") /\ Len(bidirectional) >= 2)
    => /\ firstDone \in done
       /\ (\E p \in done : respTask[p] # "exc")
             => \E p \in done : /\ respTask[p] # "exc"
                                /\ result = IF respTask[p] = "deny" THEN "False" ELSE "True"
       /\ \A p \in DOMAIN respTask \ done :
             respTask[p] \in {"cancel_req", "cancelled", "cancel_raised"}
       /\ pending = DOMAIN respTask \ done

C5_Witness ==
    /\ Returned("request_approval")
    /\ Len(bidirectional) = 2
    /\ DistinctResponders
    /\ done = {2}
    /\ respTask[2] = "deny"
    /\ result = "False"
    /\ respTask[1] = "cancel_req"

\* ------------------------------------------------------------------------
\* C6: request_approval returns false only if some wait_for_response of a
\* matching bidirectional channel returned false; when several tasks have
\* completed and answered, the value is the answer of one of them.
\* ------------------------------------------------------------------------
C6_DenyOnlyFromAResponse ==
    Returned("request_approval")
    => /\ result = "False" => \E p \in DOMAIN respTask : respTask[p] = "deny"
       /\ (Cardinality(done) >= 2 /\ \A p \in done : respTask[p] # "exc")
             => \E p \in done : (result = "False") <=> (respTask[p] = "deny")

C6_Witness ==
    /\ Returned("request_approval")
    /\ DistinctResponders
    /\ done = {1, 2}
    /\ respTask[1] = "approve"
    /\ respTask[2] = "deny"
    /\ result = "False"

\* ------------------------------------------------------------------------
\* C7 (as claimed): if the first wait_for_response task to complete raised,
\* request_approval returns true and raises nothing (stated for responders
\* that are distinct channel objects).
\* ------------------------------------------------------------------------
C7_FirstRaisedAutoApproves ==
    /\ op = "request_approval" => outcome # "raised"
    /\ (Returned("request_approval") /\ DistinctResponders
           /\ firstDone # 0 /\ respTask[firstDone] = "exc")
          => result = "True"

\* C7 (amended): request_approval never raises; it returns true if every
\* wait_for_response task that had completed when asyncio.wait resumed
\* raised (in particular when the first one raised and no other had
\* completed by then).
C7_AllRaisedAutoApproves ==
    /\ op = "request_approval" => outcome # "raised"
    /\ (Returned("request_approval") /\ done # {} /\ \A p \in done : respTask[p] = "exc")
          => result = "True"

C7_Witness ==
    /\ Returned("request_approval")
    /\ Len(bidirectional) = 2
    /\ DistinctResponders
    /\ firstDone = 1
    /\ done = {1}
    /\ respTask[1] = "exc"
    /\ result = "True"

\* ------------------------------------------------------------------------
\* C8: under fair scheduling every request_approval that has to wait
\* eventually returns; when no channel answered (every completed wait timed
\* out or failed) the value returned is true.
\* ------------------------------------------------------------------------
C8_ApprovalTerminatesFailOpen ==
    /\ (op = "request_approval" /\ pc # "idle") ~> Returned("request_approval")
    /\ [](Returned("request_approval")
            => ((\A p \in done : respTask[p] \in {"timeout", "exc"}) => result = "True"))

C8_Witness ==
    /\ Returned("request_approval")
    /\ DistinctResponders
    /\ done = {1, 2}
    /\ \A p \in done : respTask[p] = "timeout"
    /\ result = "True"

\* ------------------------------------------------------------------------
\* C9: dispatch hands every matching send to the loop at once: while it
\* waits, a send that has not begun can begin whatever the state of the
\* sends already begun (suspended ones included); it returns only when every
\* send it launched has settled.
\* ------------------------------------------------------------------------
C9_SendsLaunchedTogether ==
    /\ pc = "gather" => \A i \in Matching(ev) : sendTask[i] # "none"
    /\ (pc = "gather" /\ \E i \in DOMAIN sendTask : sendTask[i] = "created")
          => ENABLED (\E i \in 1..MaxReg, o \in {"ok", "exc", "suspend"} : send_start(i, o))
    /\ Returned("dispatch") => \A i \in Range(tasks) : sendTask[i] \in SendSettled

C9_Witness ==
    /\ pc = "gather"
    /\ Len(tasks) = 2
    /\ channels[1] # channels[2]
    /\ sendTask[1] = "suspended"
    /\ sendTask[2] \in SendSettled

\* ------------------------------------------------------------------------
\* C10 (as claimed): in one dispatch call send is invoked at most once on
\* any channel, whatever register calls preceded it.
\* ------------------------------------------------------------------------
C10_AtMostOncePerChannel ==
    op = "dispatch" => \A c \in Channels : sent[c] <= 1

\* C10 (amended): in one dispatch call send is invoked at most once per
\* registration of a channel: at most n times on a channel registered n
\* times, once for each of its entries that matches the event.
C10_AtMostOncePerRegistration ==
    op = "dispatch" =>
        \A c \in Channels :
            /\ sent[c] <= Cardinality(EntriesOf(c) \cap Matching(ev))
            /\ Returned("dispatch") => sent[c] = Cardinality(EntriesOf(c) \cap Matching(ev))

C10_Witness ==
    /\ Returned("dispatch")
    /\ \E c \in Channels : Cardinality(EntriesOf(c)) = 2 /\ sent[c] = 2

\* ------------------------------------------------------------------------
\* C11 (as claimed): the router holds one dispatch target per register call,
\* in insertion order, and a later registration under an already registered
\* name leaves the subscribed event types of the earlier entry as they were:
\* the filter the router applies to an entry is the one given when that
\* entry was registered.
\* ------------------------------------------------------------------------
C11_RegisterKeepsEarlierEntries ==
    /\ Len(channels) = Len(registered)
    /\ \A i \in 1..Len(channels) :
          EntriesOf(channels[i]) = {i} =>
              /\ name(channels[i]) \in DOMAIN filters
              /\ filters[name(channels[i])] = OrWildcard(registered[i])

\* ------------------------------------------------------------------------
\* C20: dispatch never invokes wait_for_response: during and after a
\* dispatch call no response task exists, whatever the event type and the
\* registrations (bidirectional channels included).
\* ------------------------------------------------------------------------
C20_DispatchNeverWaits ==
    op = "dispatch" => respTask = << >> /\ firstDone = 0 /\ done = {}

C20_Witness ==
    /\ Returned("dispatch")
    /\ \E i \in Range(tasks) :
          channels[i] \in {"telegram", "discord"} /\ sendTask[i] = "ok"

\* ------------------------------------------------------------------------
\* C12: connect_all and disconnect_all invoke the hook of every
\* registration entry exactly once, in registration order; a hook that
\* raises is swallowed, the hooks of the remaining entries are still
\* invoked, and the method itself never raises.
\* ------------------------------------------------------------------------
C12_LifecycleHooksIsolated ==
    op \in {"connect_all", "disconnect_all"} =>
        /\ outcome # "raised"
        /\ \A j \in 1..Len(hookLog) : hookLog[j] = j
        /\ (pc = "idle" /\ outcome = "returned") =>
              /\ Len(hookLog) = Len(channels)
              /\ \A i \in 1..Len(channels) : hookState[i] \in {"ok", "swallowed"}

C12_Witness ==
    /\ op \in {"connect_all", "disconnect_all"}
    /\ pc = "idle"
    /\ outcome = "returned"
    /\ Len(channels) = 2
    /\ channels[1] # channels[2]
    /\ hookState[1] = "swallowed"
    /\ hookState[2] = "ok"
    /\ hookLog = <<1, 2>>

\* ------------------------------------------------------------------------
\* C13 (as claimed): for any sequence of start, stop and update_status
\* calls, once stop() has returned (and start() was not called again) every
\* loop task the monitor created has ended and no heartbeat is dispatched.
\* ------------------------------------------------------------------------
C13_StopLeavesNoLoopRunning ==
    /\ hbStopped => \A t \in DOMAIN loops : loops[t].st = "done"
    /\ ~hbLate

\* ------------------------------------------------------------------------
\* C14: a monitor with interval <= 0 stays idle after start() (no task is
\* created) and never dispatches a heartbeat; stop() on a monitor that was
\* never started returns at once and changes none of the monitor's fields.
\* ------------------------------------------------------------------------
C14_NonPositiveIntervalStaysIdle ==
    /\ [](interval <= 0 => hb_task = 0 /\ loops = << >> /\ hbBeats = 0)
    /\ [](loops = << >> => hb_task = 0 /\ hbPc = "idle")
    /\ [][(loops = << >> /\ hbLast' = "stop") =>
             UNCHANGED <<interval, hb_task, loops, statusVars, hbPc>>]_vars

C14_Witness ==
    /\ interval <= 0
    /\ hbLast = "start"
    /\ current_phase = "plan"
    /\ hb_task = 0

\* ------------------------------------------------------------------------
\* C15: a send of a critical-severity or terminal (session_completed,
\* session_failed) event hands _send_email one batch made of the events
\* pending before the call followed by that event, and leaves the pending
\* queue empty, whatever min_interval and the time since the last flush.
\* ------------------------------------------------------------------------
C15_CriticalFlushesAtOnce ==
    (\/ emLastSend.event.severity = "critical"
     \/ emLastSend.event.event_type \in {"session_completed", "session_failed"}) =>
        /\ emLastSend.flushed
        /\ batches[Len(batches)].events = emLastSend.before \o <<emLastSend.event>>
        /\ email_pending = << >>

C15_Witness ==
    /\ emLastSend.event.severity = "critical"
    /\ emLastSend.event.event_type = "phase_completed"
    /\ Len(emLastSend.before) = 2
    /\ min_interval > 0
    /\ monotonic - last_sent < min_interval
    /\ Len(batches[Len(batches)].events) = 3
    /\ email_pending = << >>

\* ------------------------------------------------------------------------
\* C16 (as claimed): non-critical events batched within min_interval are
\* flushed once the interval has elapsed (or a critical event arrives):
\* whenever events are pending and min_interval has passed since the last
\* flush, the pending queue is eventually emptied.
\* ------------------------------------------------------------------------
C16_BatchFlushedOnceIntervalElapsed ==
    (email_pending # << >> /\ monotonic - last_sent >= min_interval)
        ~> (email_pending = << >>)

\* ------------------------------------------------------------------------
\* C17 (as claimed): a Telegram or Discord channel has supports_responses
\* true only when both of its credentials were non-empty at construction.
\* ------------------------------------------------------------------------
C17_ResponsesNeedBothCredentials ==
    (chatKind \in {"telegram", "discord"} /\ chat_supports) => (cred1 /\ cred2)

\* ------------------------------------------------------------------------
\* C18: on every channel class wait_for_response ends with true when its
\* deadline passes without a matching response: the expiry neither raises
\* nor starts a new wait (the deadline is computed once and the call ends
\* once it has passed), and a channel that does not support responses
\* returns true.
\* ------------------------------------------------------------------------
C18_ExpiryAutoApproves ==
    /\ [](chatCause = "expiry" => chatResult = "True" /\ loop_time >= deadline)
    /\ [](chatResult = "raised" => chatCause = "bad_body")
    /\ [](deadlineSets <= 1)
    /\ []((chatPc = "done" /\ (chatKind = "base" \/ ~chat_supports))
             => chatResult = "True")
    /\ (chatPc \notin {"idle", "done"}) ~> (chatPc = "done")

C18_Witness ==
    /\ chatPc = "done"
    /\ chatCause = "expiry"
    /\ chatResult = "True"
    /\ chatKind = "discord"
    /\ timeout = 2
    /\ loop_time > deadline

\* ------------------------------------------------------------------------
\* C19: notify(phase, summary) makes exactly one router call, a dispatch of
\* a phase_completed event with requires_response false; request_approval
\* (phase, summary) makes exactly one router call, a request_approval of a
\* checkpoint_approval event with requires_response true, and returns the
\* router's decision unchanged; both events carry the given phase and the
\* session_id the bridge had when it was called.
\* ------------------------------------------------------------------------
C19_BridgeForwardsOnce ==
    brCall.method # "none" =>
        /\ Len(routerCalls) = 1
        /\ routerCalls[1].event.phase = brCall.phase
        /\ routerCalls[1].event.session_id = brCall.session_id
        /\ brCall.method = "notify" =>
              /\ routerCalls[1].method = "dispatch"
              /\ routerCalls[1].event.event_type = "phase_completed"
              /\ routerCalls[1].event.requires_response = FALSE
        /\ brCall.method = "request_approval" =>
              /\ routerCalls[1].method = "request_approval"
              /\ routerCalls[1].event.event_type = "checkpoint_approval"
              /\ routerCalls[1].event.requires_response = TRUE
              /\ brPc = "idle" => brResult = routerResult

C19_Witness ==
    /\ brCall.method = "request_approval"
    /\ brCall.phase = "plan"
    /\ brCall.session_id = "s1"
    /\ session_id = "s2"
    /\ brPc = "idle"
    /\ routerResult = "False"
    /\ brResult = "False"

\* ------------------------------------------------------------------------
\* C21: update_status never causes a dispatch or a send, whether the
\* monitor is idle, running or stopped: the step changes only the status
\* fields (no heartbeat is handed to the router, no task is touched,
\* nothing happens in the router or the channels), and a heartbeat built
\* later carries the status fields as they are when it is built.
\* ------------------------------------------------------------------------
C21_UpdateStatusOnlySetsFields ==
    /\ [][(hbLast' = "update_status"
            /\ (hbLast # "update_status" \/ statusVars' # statusVars))
          => UNCHANGED <<interval, hb_task, loops, hbPc, hbStopped, hbBeats,
                         hbEvent, hbLate, hbFrame>>]_vars
    /\ [][hbBeats' # hbBeats =>
             /\ UNCHANGED statusVars
             /\ hbEvent' = [event_type |-> "heartbeat", phase |-> current_phase,
                            datasets |-> datasets_acquired, cost |-> cost_so_far]]_vars

C21_Witness ==
    /\ hbLast = "update_status"
    /\ hb_task # 0
    /\ loops[hb_task].st = "sleeping"
    /\ current_phase = "plan"
    /\ datasets_acquired = 1
    /\ hbBeats = 1
    /\ hbEvent.phase = ""
    /\ hbEvent.datasets = 0

\* ------------------------------------------------------------------------
\* C22 (as claimed): a request of the webhook channel carries the header
\* X-Apollo-Signature if and only if a non-empty secret is configured, its
\* value being sha256=<hmac of the exact body sent under the secret>.
\* ------------------------------------------------------------------------
C22_SignatureIffSecret ==
    whRequest # NoRequest =>
        /\ ("X-Apollo-Signature" \in DOMAIN whRequest.headers) <=> (secret # "")
        /\ secret # "" =>
              whRequest.headers["X-Apollo-Signature"]
                  = [scheme |-> "sha256", key |-> secret, msg |-> whRequest.content]

\* C22 (amended): with a non-empty secret the request carries
\* X-Apollo-Signature with value sha256=<hmac of the exact body sent under
\* the secret>, replacing a configured header of that name; with no secret
\* the channel adds no such header, so the request carries one only when
\* the configured headers contain it, with the configured value.
C22_SignatureFromSecretOrConfig ==
    whRequest # NoRequest =>
        /\ secret # "" =>
              /\ "X-Apollo-Signature" \in DOMAIN whRequest.headers
              /\ whRequest.headers["X-Apollo-Signature"]
                    = [scheme |-> "sha256", key |-> secret, msg |-> whRequest.content]
        /\ secret = "" =>
              /\ ("X-Apollo-Signature" \in DOMAIN whRequest.headers)
                    <=> ("X-Apollo-Signature" \in DOMAIN headers)
              /\ "X-Apollo-Signature" \in DOMAIN headers =>
                    whRequest.headers["X-Apollo-Signature"] = headers["X-Apollo-Signature"]

C22_Witness ==
    /\ whRequest # NoRequest
    /\ secret = "k1"
    /\ "X-Apollo-Signature" \in DOMAIN headers
    /\ whRequest.headers["X-Apollo-Signature"].scheme = "sha256"
    /\ whOutcome = "ok"

\* ------------------------------------------------------------------------
\* C23: request_approval creates one send task per matching notify-only
\* entry and never awaits it: it can return as soon as a response task is
\* done whatever the state of those sends (not begun, suspended for good,
\* settled), with no bidirectional channel it returns true at once, and
\* under fair scheduling every such send is eventually invoked.
\* ------------------------------------------------------------------------
C23_NotifyOnlyFireAndForget ==
    /\ [](op = "request_approval" =>
            /\ \A i \in 1..Len(channels) :
                  (i \in Range(notify_only)) <=>
                      (i \in Matching(ev) /\ channels[i] \notin {"telegram", "discord"})
            /\ \A i \in Range(notify_only) : sendTask[i] # "none"
            /\ \A c \in Channels \ {"telegram", "discord"} :
                  sent[c] <= Cardinality(EntriesOf(c) \cap Range(notify_only)))
    /\ []((pc = "wait" /\ NoCreated /\ \E p \in DOMAIN respTask : respTask[p] \in RespDone)
            => ENABLED (\E order \in Orders : approval_wait_return(order)))
    /\ []((Returned("request_approval") /\ bidirectional = << >>) => result = "True")
    /\ \A i \in 1..MaxReg :
          (op = "request_approval" /\ i \in Range(notify_only) /\ i \in DOMAIN sendTask
                /\ sendTask[i] = "created")
              ~> (i \in DOMAIN sendTask /\ sendTask[i] \notin {"none", "created"})

C23_Witness ==
    /\ Returned("request_approval")
    /\ bidirectional # << >>
    /\ result = "False"
    /\ \E i \in Range(notify_only) : sendTask[i] = "suspended"

\* ------------------------------------------------------------------------
\* C24: request_approval invokes send once on each matching bidirectional
\* entry, one after the other, and creates the wait_for_response tasks only
\* when every one of these sends has settled (returned, or raised and been
\* swallowed); a send that raised stops neither the remaining sends nor the
\* wait on any bidirectional entry, its own included.
\* ------------------------------------------------------------------------
C24_BidirectionalSentThenAwaited ==
    op = "request_approval" =>
        /\ \A i \in 1..Len(channels) :
              (i \in Range(bidirectional)) <=>
                  (i \in Matching(ev) /\ supports_responses(channels[i]))
        /\ \A c \in {ch \in Channels : supports_responses(ch)} :
              sent[c] <= Cardinality(EntriesOf(c) \cap Range(bidirectional))
        /\ respTask # << >> =>
              /\ DOMAIN respTask = 1..Len(bidirectional)
              /\ \A i \in Range(bidirectional) : sendTask[i] \in {"ok", "swallowed"}
              /\ \A c \in {ch \in Channels : supports_responses(ch)} :
                    sent[c] = Cardinality(EntriesOf(c) \cap Range(bidirectional))
        /\ (pc = "idle" /\ bidirectional # << >>) =>
              /\ outcome = "returned"
              /\ respTask # << >>
              /\ \A p \in DOMAIN respTask : respTask[p] # "created"

C24_Witness ==
    /\ Returned("request_approval")
    /\ Len(bidirectional) = 2
    /\ sendTask[bidirectional[1]] = "swallowed"
    /\ sendTask[bidirectional[2]] = "ok"
    /\ respTask[1] = "deny"
    /\ respTask[2] \in {"cancel_req", "cancelled", "cancel_raised"}
    /\ result = "False"

\* ------------------------------------------------------------------------
\* C25 (as claimed): request_approval partitions, sends to and waits on only
\* the channels whose own filter (the one given when the channel was
\* registered) matches the event type; a bidirectional channel filtered out
\* of the event type is not waited on, and when no bidirectional channel's
\* filter matches the result is true.
\* ------------------------------------------------------------------------
C25_ApprovalOnlyOnOwnFilter ==
    op = "request_approval" =>
        /\ \A i \in 1..Len(channels) :
              EntriesOf(channels[i]) = {i} =>
                  /\ (i \in Range(bidirectional) \cup Range(notify_only))
                         => PassesOwnFilter(i, ev)
                  /\ Invoked(i) => PassesOwnFilter(i, ev)
        /\ DOMAIN respTask \subseteq DOMAIN bidirectional
        /\ (\A i \in 1..Len(channels) :
               supports_responses(channels[i]) => ~PassesOwnFilter(i, ev))
              => (pc = "idle" /\ outcome = "returned" /\ result = "True")

\* ------------------------------------------------------------------------
\* C26: request_approval returns once a wait_for_response task is done: it
\* requests the cancellation of the tasks still pending and returns in the
\* same step, without waiting for them to end; a losing task that is never
\* torn down, or that raises while it is cancelled, changes neither the
\* moment, the value nor the outcome of the return.
\* ------------------------------------------------------------------------
C26_ReturnDoesNotJoinLosers ==
    /\ []((pc = "wait" /\ NoCreated /\ firstDone # 0)
            => ENABLED (\E order \in Orders : approval_wait_return(order)))
    /\ [][(pc = "wait" /\ pc' = "idle")
            => /\ outcome' = "returned"
               /\ \A p \in DOMAIN respTask :
                     respTask[p] \notin RespDone => respTask'[p] = "cancel_req"]_vars
    /\ [][(Returned("request_approval") /\ \E p \in DOMAIN respTask : respTask[p] = "cancel_req")
            => (pc' = "idle" /\ op' = op /\ outcome' = "returned" /\ result' = result)]_vars

C26_Witness ==
    /\ Returned("request_approval")
    /\ result = "False"
    /\ \E p \in pending : respTask[p] = "cancel_raised"

C28_StopInterruptsLoop ==
    /\ [](hbPc = "stop_await" =>
            /\ hb_task \in DOMAIN loops
            /\ loops[hb_task].cancel
            /\ loops[hb_task].st \in {"sleeping", "dispatching"}
                  => ENABLED loop_cancelled(hb_task)
            /\ loops[hb_task].st = "done" => ENABLED hb_stop_return)
    /\ [][\A t \in DOMAIN loops :
             loops[t].cancel =>
                 /\ loops'[t].cancel
                 /\ loops'[t].st \in {loops[t].st, "done"}
                 /\ loops'[t].st # loops[t].st => hbBeats' = hbBeats]_vars
    /\ [](\A t \in DOMAIN loops : loops[t].last # "raised")
    /\ [][(hbPc = "stop_await" /\ hbPc' = "idle")
            => (loops[hb_task].st = "done" /\ hb_task' = 0 /\ hbStopped')]_vars
    /\ []((hbStopped /\ Len(loops) = 1) => (loops[1].st = "done" /\ ~hbLate))

\* stop() returned after it interrupted the first dispatch of the loop.
C28_Witness ==
    /\ hbStopped
    /\ hbPc = "idle"
    /\ hb_task = 0
    /\ Len(loops) = 1
    /\ loops[1].st = "done"
    /\ loops[1].last = "none"
    /\ hbBeats = 1

\* ------------------------------------------------------------------------
\* C29: a loop task started by start() (interval > 0) emits heartbeats only
\* by alternating one full sleep of `interval` with one router.dispatch: a
\* heartbeat is emitted only by a loop whose sleep has run out, every sleep
\* starts at the full interval, the emitted event has event_type heartbeat
\* and the status fields of that moment, and a dispatch that returned or
\* failed is followed by the next sleep (the loop ends only when cancelled).
\* ------------------------------------------------------------------------
C29_SleepThenDispatch ==
    /\ [](loops # << >> => interval > 0)
    /\ [](\A t \in DOMAIN loops :
             /\ loops[t].left \in 0..interval
             /\ loops[t].st = "done" => loops[t].cancel)
    /\ [][hbBeats' # hbBeats =>
             /\ hbBeats' = hbBeats + 1
             /\ hbEvent' = [event_type |-> "heartbeat", phase |-> current_phase,
                            datasets |-> datasets_acquired, cost |-> cost_so_far]
             /\ \E t \in DOMAIN loops :
                   /\ loops[t].st = "sleeping"
                   /\ loops[t].left = 0
                   /\ loops'[t].st = "dispatching"
                   /\ \A u \in DOMAIN loops \ {t} : loops'[u] = loops[u]]_vars
    /\ [][\A t \in DOMAIN loops :
             /\ (loops'[t].st = "sleeping" /\ loops[t].st # "sleeping")
                   => (loops[t].st \in {"created", "dispatching"} /\ loops'[t].left = interval)
             /\ (loops'[t].st = "sleeping" /\ loops[t].st = "sleeping")
                   => loops'[t].left \in {loops[t].left, loops[t].left - 1}
             /\ (loops'[t].st = "dispatching" /\ loops[t].st # "dispatching")
                   => hbBeats' # hbBeats
             /\ (loops[t].st = "dispatching" /\ loops'[t].st = "done")
                   => loops[t].cancel]_vars
    /\ [](\A t \in DOMAIN loops :
             (loops[t].st = "dispatching" /\ ~loops[t].cancel)
                 => \A o \in {"ok", "exc"} : ENABLED loop_dispatched(t, o))
    /\ [](\A t \in DOMAIN loops :
             (loops[t].st = "sleeping" /\ loops[t].left = 0 /\ ~loops[t].cancel
                /\ hbBeats < MaxBeats)
                 => ENABLED loop_wake(t))

\* A second heartbeat is being dispatched after the first dispatch failed.
C29_Witness ==
    /\ Len(loops) = 1
    /\ loops[1].st = "dispatching"
    /\ loops[1].last = "swallowed"
    /\ hbBeats = 2
    /\ hbEvent.phase = "plan"

\* ------------------------------------------------------------------------
\* C30 (as claimed): on a channel that supports responses, wait_for_response
\* returns a decision before the timeout only because an approve or deny
\* control of this event was actuated: a Telegram callback carrying this
\* event's session_id and phase, or a human reaction on the message the
\* channel posted for this event; a reaction on another message never
\* resolves the wait.
\* ------------------------------------------------------------------------
C30_DecisionOnlyFromOwnControl ==
    (/\ chatKind \in {"telegram", "discord"}
     /\ chat_supports
     /\ chatPc = "done"
     /\ chatResult \in {"True", "False"}
     /\ loop_time < deadline)
    => /\ chatCause = "match"
       /\ chatKind = "discord" => message_id = "own"

\* ------------------------------------------------------------------------
\* C31 (as claimed): on a channel that supports responses no request of
\* wait_for_response, the first one included, ends the wait by failing: the
\* wait ends only with a matching response or at the timeout, and a failed
\* request neither raises nor yields a decision.
\* ------------------------------------------------------------------------
C31_TransportErrorKeepsPolling ==
    (/\ chatKind \in {"telegram", "discord"}
     /\ chat_supports
     /\ chatPc = "done")
    => chatCause # "fetch_error"

\* ------------------------------------------------------------------------
\* C32 (as claimed): during an orchestrator run every router call that sends
\* to or waits on the channels (dispatch, notify, request_approval, the
\* heartbeat) is made while the channels are connected: after a connect_all
\* and before the following disconnect_all, in every mode, the approvals
\* that pipeline mode requests between its stages included.
\* ------------------------------------------------------------------------
C32_ChannelsUsedWhileConnected ==
    \A u \in orLog : u.connected

\* ------------------------------------------------------------------------
\* C33 (as claimed): whenever a run that went through session setup has
\* ended (returned or raised: normal completion, denial of the plan, denial
\* of a checkpoint inside the executor), the monitor started in setup has
\* been stopped and disconnect_all has been called.
\* ------------------------------------------------------------------------
C33_TeardownOnEveryPath ==
    orEnd # "running" => (orHb = "stopped" /\ ~orConnected)

\* The work gated by the approval request named g.
Gated(g) ==
    CASE g = "plan"                   -> "execute"
      [] g = "pipeline_translate"     -> "translate"
      [] g = "pipeline_implement"     -> "implement"
      [] g = "pipeline_commercialize" -> "commercialize"
      [] OTHER                        -> g

\* ------------------------------------------------------------------------
\* C34: the work gated by an approval that was denied is never begun: the
\* executor does not begin the phase, discover mode does not call the
\* executor, pipeline mode does not start the next stage; the run ends at the
\* denial.
\* ------------------------------------------------------------------------
C34_DeniedWorkNeverRuns ==
    /\ \A g \in orDenied : Gated(g) \notin orBegan
    /\ orDenied # {} => orPc \in {"stage_done", "ended"}
    /\ Cardinality(orDenied) <= 1

\* The executor was refused the analysis phase after two phases had run.
C34_Witness ==
    /\ orDenied = {"analysis"}
    /\ orEnd = "raised"
    /\ {"execute", "literature_review", "data_acquisition"} \subseteq orBegan

\* ------------------------------------------------------------------------
\* C37: register with an empty event list stores the wildcard filter, as
\* register with None does: as long as no later registration replaces the
\* filter stored under the channel's name, the channel matches every event
\* type and every dispatch invokes send on it.
\* ------------------------------------------------------------------------
C37_EmptyListIsWildcard ==
    /\ [][(Len(channels') = Len(channels) + 1
             /\ registered'[Len(channels')] = ListArg({}))
            => filters'[name(channels'[Len(channels')])] = {"*"}]_vars
    /\ [](\A i \in 1..Len(channels) :
             (/\ registered[i] = ListArg({})
              /\ \A j \in (i + 1)..Len(channels) : name(channels[j]) # name(channels[i]))
             => /\ filters[name(channels[i])] = {"*"}
                /\ \A e \in EventType : i \in Matching(e)
                /\ op = "dispatch" => sendTask[i] # "none"
                /\ Returned("dispatch") => sendTask[i] \in SendSettled)

C37_Witness ==
    /\ Returned("dispatch")
    /\ Len(channels) = 2
    /\ registered[1] = ListArg({})
    /\ registered[2] = ListArg({"phase_completed"})
    /\ name(channels[1]) # name(channels[2])
    /\ ev = "checkpoint_approval"
    /\ sendTask[1] = "ok"
    /\ sendTask[2] = "none"

\* Number of places (the pending queue, each batch) holding the event id n.
Holders(n) ==
    Cardinality({q \in DOMAIN email_pending : email_pending[q].id = n})
    + Cardinality({<<b, q>> \in (DOMAIN batches) \X (1..emCount) :
                      q \in DOMAIN batches[b].events /\ batches[b].events[q].id = n})

\* ------------------------------------------------------------------------
\* C35: at all times every event passed to send is in exactly one place,
\* the pending queue or one batch handed to _send_email; the queue and every
\* batch list their events in arrival order, a batch ending with the event
\* whose send triggered the flush. Holds for every interleaving of send
\* calls: a send touches the queue only before its first await.
\* ------------------------------------------------------------------------
C35_EventInOnePlace ==
    /\ [](\A n \in 1..emCount : Holders(n) = 1)
    /\ [](\A b \in DOMAIN batches :
             /\ batches[b].events # << >>
             /\ \A q \in 1..(Len(batches[b].events) - 1) :
                   batches[b].events[q].id < batches[b].events[q + 1].id)
    /\ [](\A q \in 1..(Len(email_pending) - 1) :
             email_pending[q].id < email_pending[q + 1].id)
    /\ [][Len(batches') > Len(batches) =>
             LET new == batches'[Len(batches')].events
             IN  /\ new[Len(new)].id = emCount'
                 /\ emCount' = emCount + 1
                 /\ SubSeq(new, 1, Len(new) - 1) = email_pending
                 /\ email_pending' = << >>]_vars

\* A critical event was flushed together with a pending event while an earlier batch was
\* still being sent.
C35_Witness ==
    /\ Len(batches) = 2
    /\ batches[1].status = "sending"
    /\ Len(batches[2].events) = 2
    /\ immediate(batches[2].events[2])
    /\ email_pending = << >>

\* ------------------------------------------------------------------------
\* C36: when the SMTP attempt of a batch fails, or no recipients are
\* configured, send goes on as after a successful flush: the batch's events
\* stay out of the pending queue and _last_sent is set to the time read at
\* the entry of that send.
\* ------------------------------------------------------------------------
C36_FailedFlushCountsAsSent ==
    /\ [][\A b \in DOMAIN batches :
             (batches[b].status = "sending" /\ batches'[b].status # "sending")
             => /\ batches'[b].status \in {"sent", "failed"}
                /\ last_sent' = batches[b].at
                /\ email_pending' = email_pending]_vars
    /\ [][(Len(batches') > Len(batches) /\ ~to_addrs)
            => /\ batches'[Len(batches')].status = "dropped"
               /\ last_sent' = monotonic
               /\ email_pending' = << >>]_vars
    /\ [](\A b \in DOMAIN batches :
             batches[b].status \in {"failed", "dropped"}
             => \A q \in DOMAIN batches[b].events :
                   \A r \in DOMAIN email_pending :
                       email_pending[r].id # batches[b].events[q].id)

\* The SMTP attempt of a batch flushed at time 2 has failed; _last_sent is 2
\* and a later event is pending.
C36_Witness ==
    /\ Len(batches) = 1
    /\ batches[1].status = "failed"
    /\ batches[1].at = 2
    /\ last_sent = 2
    /\ Len(email_pending) = 1

\* ------------------------------------------------------------------------
\* C38: every update_status call stores the passed datasets and cost (0 when
\* the argument is left out) and stores the passed phase only when it is
\* non-empty, keeping the current phase otherwise; it changes no other
\* field of the monitor, neither the task it holds nor any loop task.
\* ------------------------------------------------------------------------
C38_UpdateStatusStoresArguments ==
    /\ [][(hbLast' = "update_status"
            /\ (hbLast # "update_status" \/ statusVars' # statusVars))
           => /\ datasets_acquired' = hbArgs'.datasets
              /\ cost_so_far' = hbArgs'.cost
              /\ current_phase' = IF hbArgs'.phase # "" THEN hbArgs'.phase
                                  ELSE current_phase
              /\ UNCHANGED <<interval, hb_task, loops, hbPc, hbStopped, hbBeats,
                             hbEvent, hbLate>>]_vars
    /\ [][hbArgs' # hbArgs => hbLast' = "update_status"]_vars
    /\ [](hbArgs # NoArgs =>
            /\ datasets_acquired = hbArgs.datasets
            /\ cost_so_far = hbArgs.cost
            /\ hbArgs.phase # "" => current_phase = hbArgs.phase)

\* A call without arguments on a running monitor reset both counts after a
\* heartbeat had reported them, and kept the phase.
C38_Witness ==
    /\ hbLast = "update_status"
    /\ hbArgs = [phase |-> "", datasets |-> 0, cost |-> 0]
    /\ current_phase = "plan"
    /\ hbEvent.datasets = 1
    /\ hbEvent.cost = 2
    /\ datasets_acquired = 0
    /\ cost_so_far = 0
    /\ hb_task # 0

====
